---- MODULE Spec2Model ----
(***************************************************************************)
(* A model of the velocity compiler: the two tokenizers                    *)
(* (src/tokenizer/tokenizer.rs, src/tokenizer.rs), the recursive-descent   *)
(* parser (src/parsing/parser.rs), the symbol collector and the code       *)
(* generator (src/codegen/codegen.rs) and the driver (src/main.rs).        *)
(*                                                                         *)
(* Source text is a sequence of one-character strings.  Generated text is  *)
(* a sequence of fragments: every literal piece of a format string and     *)
(* every interpolated name is one fragment, in the order the code writes   *)
(* them.                                                                   *)
(***************************************************************************)
EXTENDS Integers, Sequences, FiniteSets, TLC

VARIABLES
    pc,        \* the driver's position
    contents,  \* the source text being compiled
    lex,       \* the running tokenizer's local state
    tokens,    \* Result<Vec<Token>> of the tokenizer
    parser,    \* Parser { index } plus the locals of Parser::parse
    ast,       \* Result<Vec<Statement>, Vec<Error>> of Parser::parse
    state,     \* CodegenState { symbol_table, symbols }
    state0,    \* CodegenState as it was when codegen was called
    output,    \* Result<(cpp, hpp)> of codegen
    files,     \* the files written by main
    printed,   \* the errors printed by main
    ran        \* the stages that have run, in order

vars == <<pc, contents, lex, tokens, parser, ast, state, state0, output, files, printed, ran>>

(***************************************************************************)
(* Characters                                                              *)
(***************************************************************************)
Lower == {"a","b","c","d","e","f","g","h","i","j","k","l","m",
          "n","o","p","q","r","s","t","u","v","w","x","y","z"}
Upper == {"A","B","C","D","E","F","G","H","I","J","K","L","M",
          "N","O","P","Q","R","S","T","U","V","W","X","Y","Z"}
Digit == {"0","1","2","3","4","5","6","7","8","9"}
IdentStart == Lower \cup Upper \cup {"_"}
IdentPart == IdentStart \cup Digit

\* Option<char>::None of chars.peek() / self.current()
NoChar == ""

RECURSIVE Concat(_)
Concat(cs) == IF cs = <<>> THEN "" ELSE Head(cs) \o Concat(Tail(cs))

\* the character at 1-based position p, or NoChar past the end
CharAt(text, p) == IF p >= 1 /\ p <= Len(text) THEN text[p] ELSE NoChar

\* how many characters from position p on belong to the set S
RECURSIVE RunIn(_, _, _)
RunIn(text, p, S) ==
    IF p <= Len(text) /\ text[p] \in S THEN 1 + RunIn(text, p + 1, S) ELSE 0

\* how many characters from position p on differ from the character stop
RECURSIVE RunUntil(_, _, _)
RunUntil(text, p, stop) ==
    IF p <= Len(text) /\ text[p] # stop THEN 1 + RunUntil(text, p + 1, stop) ELSE 0

(***************************************************************************)
(* Spans, tokens, errors                                                   *)
(***************************************************************************)
\* (filename, (line, start)..(line, end)); the file name is the same everywhere
Span(line, start, end) == [line |-> line, start |-> start, end |-> end]

NoSpan == Span(0, 0, 0)

\* a String held by a token is the sequence of its characters
Token(kind, value, span) == [kind |-> kind, value |-> value, span |-> span]

Error(message, arg, span) == [message |-> message, arg |-> arg, span |-> span]

NoError == Error("", "", NoSpan)

Ok(v) == [ok |-> TRUE, value |-> v, error |-> NoError]
Err(e) == [ok |-> FALSE, value |-> <<>>, error |-> e]

\* a result not yet produced
Pending == [ok |-> FALSE, value |-> <<>>, error |-> Error("pending", "", NoSpan)]

(***************************************************************************)
(* tokenize (src/tokenizer/tokenizer.rs), the tokenizer main uses          *)
(***************************************************************************)
\* the locals of tokenize: pos is the 1-based position of the character
\* chars.next() returns next; error is set when the function has returned Err
LexInit == [pos |-> 1, line |-> 1, start |-> 0, end |-> 0, tokens |-> <<>>,
            error |-> NoError]

KeywordKind(ident) ==
    CASE ident = "import" -> "Import"
      [] ident = "struct" -> "Struct"
      [] ident = "fn" -> "Fn"
      [] ident = "mut" -> "Mut"
      [] ident = "var" -> "Var"
      [] ident = "const" -> "Const"
      [] ident = "for" -> "For"
      [] ident = "in" -> "In"
      [] ident = "return" -> "Return"
      [] ident = "and" -> "And"
      [] ident = "or" -> "Or"
      [] ident = "true" -> "Boolean"
      [] ident = "false" -> "Boolean"
      [] ident = "int" -> "Int"
      [] ident = "float" -> "Float"
      [] ident = "bool" -> "Bool"
      [] ident = "char" -> "Char"
      [] OTHER -> "Identifier"

\* tokens.push(Token { kind, value, span: (line, start)..(line, spanEnd) }) with
\* the cursor left at pos and the columns at start, end
LexPush(L, pos, start, end, kind, value, spanEnd) ==
    [L EXCEPT !.pos = pos, !.start = start, !.end = end,
              !.tokens = Append(@, Token(kind, value, Span(L.line, start, spanEnd)))]

\* 'a'..='z' | 'A'..='Z' | '_'
tokenize_identifier(text, L, c) ==
    LET p == L.pos + 1
        n == RunIn(text, p, IdentPart)
        ident == <<c>> \o SubSeq(text, p, p + n - 1)
        start == L.end + 1
        end == L.end + 1 + n
    IN  LexPush(L, p + n, start, end, KeywordKind(Concat(ident)), ident, end)

\* '0'..='9'
tokenize_number(text, L, c) ==
    LET p == L.pos + 1
        n == RunIn(text, p, Digit)
        m == RunIn(text, p + n + 1, Digit)
        whole == <<c>> \o SubSeq(text, p, p + n - 1)
        start == L.end + 1
        end == L.end + 1 + n
    IN  IF CharAt(text, p + n) = "."
        THEN LexPush(L, p + n + 1 + m, start, end + 1 + m, "FloatingPoint",
                     whole \o <<".">> \o SubSeq(text, p + n + 1, p + n + m),
                     end + 1 + m)
        ELSE LexPush(L, p + n, start, end, "Integer", whole, end)

\* '"' and '\'': everything up to the closing delimiter or the end of input
tokenize_quoted(text, L, quote, kind) ==
    LET p == L.pos + 1
        n == RunUntil(text, p, quote)
        closed == IF p + n <= Len(text) THEN 1 ELSE 0
        start == L.end + 1
        end == L.end + 1 + n + closed
    IN  LexPush(L, p + n + closed, start, end, kind,
                SubSeq(text, p, p + n - 1), end)

\* '+', '*', '%': the one-character token is pushed only at the end of input
tokenize_arith(text, L, c, kind1, kind2) ==
    LET p == L.pos + 1
        start == L.end + 1
        end == L.end + 1
        peek == CharAt(text, p)
    IN  IF peek # NoChar
        THEN IF peek = "="
             THEN LexPush(L, p + 1, start, end + 1, kind2, <<c, "=">>, end + 1)
             ELSE [L EXCEPT !.pos = p, !.start = start, !.end = end]
        ELSE LexPush(L, p, start, end, kind1, <<c>>, end)

\* '-'
tokenize_minus(text, L) ==
    LET p == L.pos + 1
        start == L.end + 1
        end == L.end + 1
        peek == CharAt(text, p)
    IN  IF peek # NoChar
        THEN IF peek = "="
             THEN LexPush(L, p + 1, start, end + 1, "MinusEquals", <<"-", "=">>, end + 1)
             ELSE IF peek = ">"
             THEN LexPush(L, p + 1, start, end + 1, "Arrow", <<"-", ">">>, end + 1)
             ELSE [L EXCEPT !.pos = p, !.start = start, !.end = end]
        ELSE LexPush(L, p, start, end, "Minus", <<"-">>, end)

\* '/': "/=", a "//" comment through the next newline, or nothing
tokenize_slash(text, L) ==
    LET p == L.pos + 1
        start == L.end + 1
        end == L.end + 1
        peek == CharAt(text, p)
        n == RunUntil(text, p, "\n")
        nl == IF p + n <= Len(text) THEN 1 ELSE 0
    IN  IF peek # NoChar
        THEN IF peek = "="
             THEN LexPush(L, p + 1, start, end + 1, "SlashEquals", <<"/", "=">>, end + 1)
             ELSE IF peek = "/"
             THEN [L EXCEPT !.pos = p + n + nl, !.start = start, !.end = end + n + nl]
             ELSE [L EXCEPT !.pos = p, !.start = start, !.end = end]
        ELSE LexPush(L, p, start, end, "Slash", <<"/">>, end)

\* '=', '!', '<', '>'
tokenize_compare(text, L, c, kind1, kind2) ==
    LET p == L.pos + 1
        start == L.end + 1
        end == L.end + 1
    IN  IF CharAt(text, p) = "="
        THEN LexPush(L, p + 1, start, end + 1, kind2, <<c, "=">>, end + 1)
        ELSE LexPush(L, p, start, end, kind1, <<c>>, end)

\* '(' ')' '{' '}' '[' ']' ',' '.' ':' ';' '&' '|'
tokenize_single(L, c, kind) ==
    LexPush(L, L.pos + 1, L.end + 1, L.end + 1, kind, <<c>>, L.end + 1)

PunctuationKind(c) ==
    CASE c = "(" -> "OpenParenthesis"
      [] c = ")" -> "CloseParenthesis"
      [] c = "{" -> "OpenBrace"
      [] c = "}" -> "CloseBrace"
      [] c = "[" -> "OpenBracket"
      [] c = "]" -> "CloseBracket"
      [] c = "," -> "Comma"
      [] c = "." -> "Dot"
      [] c = ":" -> "Colon"
      [] c = ";" -> "Semicolon"
      [] c = "&" -> "Ampersand"
      [] c = "|" -> "Pipe"
      [] OTHER -> ""

\* one iteration of `while let Some(c) = chars.next()`
tokenize_char(text, L) ==
    LET c == text[L.pos] IN
    CASE c \in {" ", "\t", "\r"} ->
            [L EXCEPT !.pos = @ + 1, !.start = @ + 1, !.end = @ + 1]
      [] c = "\n" ->
            [L EXCEPT !.pos = @ + 1, !.line = @ + 1, !.start = 0, !.end = 0]
      [] c \in IdentStart -> tokenize_identifier(text, L, c)
      [] c \in Digit -> tokenize_number(text, L, c)
      [] c = "\"" -> tokenize_quoted(text, L, "\"", "String")
      [] c = "'" -> tokenize_quoted(text, L, "'", "Character")
      [] c = "+" -> tokenize_arith(text, L, c, "Plus", "PlusEquals")
      [] c = "-" -> tokenize_minus(text, L)
      [] c = "*" -> tokenize_arith(text, L, c, "Asterisk", "AsteriskEquals")
      [] c = "/" -> tokenize_slash(text, L)
      [] c = "%" -> tokenize_arith(text, L, c, "Percent", "PercentEquals")
      [] c = "=" -> tokenize_compare(text, L, c, "Equals", "EqualsEquals")
      [] c = "!" -> tokenize_compare(text, L, c, "Bang", "BangEquals")
      [] c = "<" -> tokenize_compare(text, L, c, "LessThan", "LessThanEquals")
      [] c = ">" -> tokenize_compare(text, L, c, "GreaterThan", "GreaterThanEquals")
      [] PunctuationKind(c) # "" -> tokenize_single(L, c, PunctuationKind(c))
      [] OTHER ->
            [L EXCEPT !.pos = @ + 1, !.start = L.end,
                      !.error = Error("unexpected character", c, Span(L.line, L.end, L.end))]

\* a tokenize that returns the tokens as they are, with no Eof after them
tokenize_result_no_eof(L) ==
    IF L.error # NoError THEN Err(L.error) ELSE Ok(L.tokens)

\* the end of tokenize: the first error, or the tokens with Eof appended
tokenize_result(L) ==
    IF L.error # NoError
    THEN Err(L.error)
    ELSE Ok(Append(L.tokens, Token("Eof", <<"<", "e", "o", "f", ">">>, Span(L.line, L.start, L.end))))

RECURSIVE tokenize_loop(_, _)
tokenize_loop(text, L) ==
    IF L.error # NoError \/ L.pos > Len(text)
    THEN L
    ELSE tokenize_loop(text, tokenize_char(text, L))

tokenize(text) == tokenize_result(tokenize_loop(text, LexInit))

(***************************************************************************)
(* The AST (src/parsing/ast.rs)                                            *)
(***************************************************************************)
None == [k |-> "None"]
Some(x) == [k |-> "Some", v |-> x]

\* Spanned<T> = (T, Span); a name of the AST is held as one TLA+ string
spanned(t, span) == <<t, span>>

Block(statements) == [k |-> "Block", statements |-> statements]
Import(spanned_id) == [k |-> "Import", spanned_id |-> spanned_id]
Struct(spanned_id, generic_parameters, fields) ==
    [k |-> "Struct", spanned_id |-> spanned_id,
     generic_parameters |-> generic_parameters, fields |-> fields]
Enum(spanned_id, generic_parameters, base_type, variants) ==
    [k |-> "Enum", spanned_id |-> spanned_id, generic_parameters |-> generic_parameters,
     base_type |-> base_type, variants |-> variants]
Union(spanned_id, generic_parameters, tagged, variants) ==
    [k |-> "Union", spanned_id |-> spanned_id, generic_parameters |-> generic_parameters,
     tagged |-> tagged, variants |-> variants]
Function(spanned_id, parameters, ret, body) ==
    [k |-> "Function", spanned_id |-> spanned_id, parameters |-> parameters,
     ret |-> ret, body |-> body]
Variable(spanned_id, ty, expression) ==
    [k |-> "Variable", spanned_id |-> spanned_id, ty |-> ty, expression |-> expression]
Constant(spanned_id, ty, expression) ==
    [k |-> "Constant", spanned_id |-> spanned_id, ty |-> ty, expression |-> expression]
For(spanned_id, expression, body) ==
    [k |-> "For", spanned_id |-> spanned_id, expression |-> expression, body |-> body]
Return(expression) == [k |-> "Return", expression |-> expression]
ExpressionStatement(expression) == [k |-> "Expression", expression |-> expression]
Garbage == [k |-> "Garbage"]

Identifier(spanned_id) == [k |-> "Identifier", v |-> spanned_id]
StringLit(spanned_string) == [k |-> "String", v |-> spanned_string]
CharacterLit(spanned_char) == [k |-> "Character", v |-> spanned_char]
IntegerLit(spanned_int) == [k |-> "Integer", v |-> spanned_int]
FloatingPointLit(spanned_float) == [k |-> "FloatingPoint", v |-> spanned_float]
BooleanLit(spanned_bool) == [k |-> "Boolean", v |-> spanned_bool]
Binary(lhs, operator, rhs) == [k |-> "Binary", lhs |-> lhs, operator |-> operator, rhs |-> rhs]
Unary(operator, expression) == [k |-> "Unary", operator |-> operator, expression |-> expression]
Call(expression, arguments) == [k |-> "Call", expression |-> expression, arguments |-> arguments]
Index(expression, index) == [k |-> "Index", expression |-> expression, index |-> index]
Member(expression, member) == [k |-> "Member", expression |-> expression, member |-> member]
Assignment(lhs, value) == [k |-> "Assignment", lhs |-> lhs, value |-> value]
StructLiteral(expression, fields) ==
    [k |-> "StructLiteral", expression |-> expression, fields |-> fields]
ArrayLiteral(expressions) == [k |-> "ArrayLiteral", expressions |-> expressions]

TypeInteger == [k |-> "Integer"]
TypeUnsignedInteger == [k |-> "UnsignedInteger"]
TypeFloatingPoint == [k |-> "FloatingPoint"]
TypeBoolean == [k |-> "Boolean"]
TypeCharacter == [k |-> "Character"]
TypeReference(inner) == [k |-> "Reference", inner |-> inner]
TypeMutableReference(inner) == [k |-> "MutableReference", inner |-> inner]
TypeIdentifier(spanned_id) == [k |-> "Identifier", v |-> spanned_id]
TypePolymorphic(spanned_id, types) == [k |-> "Polymorphic", v |-> spanned_id, types |-> types]
TypeMember(inner, member) == [k |-> "Member", inner |-> inner, member |-> member]
TypeFunction(types, ret) == [k |-> "Function", types |-> types, ret |-> ret]

(***************************************************************************)
(* Numbers: str::parse::<i64>, str::parse::<f64> and to_string             *)
(***************************************************************************)
DigitValue(c) ==
    CASE c = "0" -> 0 [] c = "1" -> 1 [] c = "2" -> 2 [] c = "3" -> 3 [] c = "4" -> 4
      [] c = "5" -> 5 [] c = "6" -> 6 [] c = "7" -> 7 [] c = "8" -> 8 [] c = "9" -> 9

DigitChar(d) == <<"0", "1", "2", "3", "4", "5", "6", "7", "8", "9">>[d + 1]

\* the value of a run of decimal digits
RECURSIVE DigitsValue(_)
DigitsValue(ds) ==
    IF ds = <<>> THEN 0 ELSE 10 * DigitsValue(SubSeq(ds, 1, Len(ds) - 1)) + DigitValue(ds[Len(ds)])

\* i64::to_string of a value >= 0
RECURSIVE IntToString(_)
IntToString(n) ==
    IF n < 10 THEN DigitChar(n) ELSE IntToString(n \div 10) \o DigitChar(n % 10)

\* a run of digits without its trailing zeros
RECURSIVE StripTrailingZeros(_)
StripTrailingZeros(ds) ==
    IF ds # <<>> /\ ds[Len(ds)] = "0"
    THEN StripTrailingZeros(SubSeq(ds, 1, Len(ds) - 1))
    ELSE ds

\* the f64 a "digits.digits" lexeme denotes, as its whole part and the digits
\* of its fraction, and its to_string
ParseFloat(value) ==
    LET n == RunUntil(value, 1, ".")
    IN  [whole |-> DigitsValue(SubSeq(value, 1, n)),
         fraction |-> StripTrailingZeros(SubSeq(value, n + 2, Len(value)))]

FloatToString(f) ==
    IF f.fraction = <<>>
    THEN IntToString(f.whole)
    ELSE IntToString(f.whole) \o "." \o Concat(f.fraction)

(***************************************************************************)
(* Parser (src/parsing/parser.rs).  Every parse function takes the tokens  *)
(* and the cursor (self.index, 0-based) and returns the outcome, the       *)
(* cursor it leaves and the node or the error.                             *)
(***************************************************************************)
NoNode == [k |-> "NoNode"]

POk(i, node) == [t |-> "ok", i |-> i, node |-> node, error |-> NoError]
PErr(i, error) == [t |-> "err", i |-> i, node |-> NoNode, error |-> error]
\* a panic: unreachable!(), unwrap() of None or Err, an index out of range
PPanic(i, what) == [t |-> "panic", i |-> i, node |-> NoNode, error |-> Error("panic", what, NoSpan)]

\* the `?` operator: an Err (or a panic) leaves the function at once, an Ok
\* value goes on into the rest of the function
Try(result, rest(_)) == IF result.t # "ok" THEN result ELSE rest(result)

is_at_end(toks, i) == i >= Len(toks)

\* &self.tokens[self.index - 1]; out of range when index = 0
PanicToken == Token("<panic>", <<>>, NoSpan)
previous(toks, i) == IF i >= 1 /\ i <= Len(toks) THEN toks[i] ELSE PanicToken

current(toks, i) ==
    IF is_at_end(toks, i)
    THEN IF previous(toks, i) = PanicToken
         THEN PPanic(i, "previous")
         ELSE PErr(i, Error("unexpected end of file", "", previous(toks, i).span))
    ELSE POk(i, toks[i + 1])

\* an advance without its is_at_end guard
advance_unguarded(toks, i) == i + 1

\* the cursor after self.advance()
advance(toks, i) == IF ~is_at_end(toks, i) THEN i + 1 ELSE i

check(toks, i, kind) == ~is_at_end(toks, i) /\ toks[i + 1].kind = kind

\* a consume that steps over the token it rejects
consume_skipping(toks, i, kind) ==
    IF check(toks, i, kind)
    THEN POk(advance(toks, i), toks[i + 1])
    ELSE Try(current(toks, i), LAMBDA token :
         PErr(advance(toks, i), Error("expected", <<kind, token.node.kind>>, token.node.span)))

consume(toks, i, kind) ==
    IF check(toks, i, kind)
    THEN POk(advance(toks, i), toks[i + 1])
    ELSE Try(current(toks, i), LAMBDA token :
         PErr(i, Error("expected", <<kind, token.node.kind>>, token.node.span)))

\* (identifier.value.clone(), identifier.span.clone())
SpannedId(token) == spanned(Concat(token.value), token.span)

RECURSIVE parse_type(_, _), parse_type_members(_, _, _), parse_reference(_, _),
          parse_type_list(_, _, _, _)

\* while !self.check(close) { push(parse_type()?); if !check(close) { consume(Comma)? } }
parse_type_list(toks, i, close, acc) ==
    IF check(toks, i, close)
    THEN POk(i, acc)
    ELSE Try(parse_type(toks, i), LAMBDA ty :
         IF check(toks, ty.i, close)
         THEN POk(ty.i, Append(acc, ty.node))
         ELSE Try(consume(toks, ty.i, "Comma"), LAMBDA comma :
              parse_type_list(toks, comma.i, close, Append(acc, ty.node))))

parse_reference(toks, i) ==
    IF check(toks, i, "Ampersand")
    THEN IF check(toks, i + 1, "Mut")
         THEN Try(parse_reference(toks, i + 2), LAMBDA ty :
              POk(ty.i, TypeMutableReference(ty.node)))
         ELSE Try(parse_reference(toks, i + 1), LAMBDA ty :
              POk(ty.i, TypeReference(ty.node)))
    ELSE IF check(toks, i, "Identifier")
    THEN IF check(toks, i + 1, "OpenBracket")
         THEN Try(parse_type_list(toks, i + 2, "CloseBracket", <<>>), LAMBDA parameters :
              Try(consume(toks, parameters.i, "CloseBracket"), LAMBDA close :
              POk(close.i, TypePolymorphic(SpannedId(toks[i + 1]), parameters.node))))
         ELSE POk(i + 1, TypeIdentifier(SpannedId(toks[i + 1])))
    ELSE IF check(toks, i, "Fn")
    THEN Try(consume(toks, i + 1, "OpenParenthesis"), LAMBDA open :
         Try(parse_type_list(toks, open.i, "CloseParenthesis", <<>>), LAMBDA parameters :
         Try(consume(toks, parameters.i, "CloseParenthesis"), LAMBDA close :
         Try(consume(toks, close.i, "Arrow"), LAMBDA arrow :
         Try(parse_type(toks, arrow.i), LAMBDA return_type :
         POk(return_type.i,
             TypeFunction(parameters.node, return_type.node)))))))
    ELSE IF check(toks, i, "Int") THEN POk(i + 1, TypeInteger)
    ELSE IF check(toks, i, "Float") THEN POk(i + 1, TypeFloatingPoint)
    ELSE IF check(toks, i, "Bool") THEN POk(i + 1, TypeBoolean)
    ELSE IF check(toks, i, "Char") THEN POk(i + 1, TypeCharacter)
    ELSE Try(current(toks, i), LAMBDA token :
         PErr(i, Error("expected a type", token.node.kind, token.node.span)))

\* while self.check(Dot) { advance; consume(Identifier)?; type_ = Member(type_, id) }
parse_type_members(toks, i, type_) ==
    IF check(toks, i, "Dot")
    THEN Try(consume(toks, i + 1, "Identifier"), LAMBDA identifier :
         parse_type_members(toks, identifier.i,
                            TypeMember(type_, SpannedId(identifier.node))))
    ELSE POk(i, type_)

parse_type(toks, i) ==
    Try(parse_reference(toks, i), LAMBDA type_ :
    parse_type_members(toks, type_.i, type_.node))

RECURSIVE parse_expression(_, _), parse_assignment(_, _), parse_or(_, _), parse_and(_, _),
          parse_equality(_, _), parse_comparison(_, _), parse_term(_, _), parse_factor(_, _),
          parse_unary(_, _), parse_call(_, _), parse_primary(_, _),
          parse_binary_loop(_, _, _, _), parse_expression_list(_, _, _, _),
          parse_struct_literal_members(_, _, _), parse_call_loop(_, _, _)

\* the BinaryOperator a token kind stands for at one precedence level
BinaryOperatorOf(kind) ==
    CASE kind = "Or" -> "Or"
      [] kind = "And" -> "And"
      [] kind = "EqualsEquals" -> "EqualsEquals"
      [] kind = "BangEquals" -> "BangEquals"
      [] kind = "LessThan" -> "LessThan"
      [] kind = "LessThanEquals" -> "LessThanEquals"
      [] kind = "GreaterThan" -> "GreaterThan"
      [] kind = "GreaterThanEquals" -> "GreaterThanEquals"
      [] kind = "Plus" -> "Plus"
      [] kind = "Minus" -> "Minus"
      [] kind = "Asterisk" -> "Asterisk"
      [] kind = "Slash" -> "Slash"
      [] kind = "Percent" -> "Percent"

\* the loop every binary level shares:
\* while self.check(one of kinds) { operator; advance; right = parse_expression()?;
\*                                  expression = Binary(expression, operator, right) }
parse_binary_loop(toks, i, expression, kinds) ==
    IF ~is_at_end(toks, i) /\ toks[i + 1].kind \in kinds
    THEN Try(parse_expression(toks, i + 1), LAMBDA right :
         parse_binary_loop(toks, right.i,
             Binary(expression, BinaryOperatorOf(toks[i + 1].kind), right.node), kinds))
    ELSE POk(i, expression)

parse_expression(toks, i) == parse_assignment(toks, i)

parse_assignment(toks, i) ==
    Try(parse_or(toks, i), LAMBDA expression :
    IF check(toks, expression.i, "Equals")
    THEN Try(parse_assignment(toks, expression.i + 1), LAMBDA value :
         POk(value.i, Assignment(expression.node, value.node)))
    ELSE expression)

parse_or(toks, i) ==
    Try(parse_and(toks, i), LAMBDA expression :
    parse_binary_loop(toks, expression.i, expression.node, {"Or"}))

parse_and(toks, i) ==
    Try(parse_equality(toks, i), LAMBDA expression :
    parse_binary_loop(toks, expression.i, expression.node, {"And"}))

parse_equality(toks, i) ==
    Try(parse_comparison(toks, i), LAMBDA expression :
    parse_binary_loop(toks, expression.i, expression.node,
                      {"EqualsEquals", "BangEquals"}))

parse_comparison(toks, i) ==
    Try(parse_term(toks, i), LAMBDA expression :
    parse_binary_loop(toks, expression.i, expression.node,
        {"LessThan", "LessThanEquals", "GreaterThan", "GreaterThanEquals"}))

parse_term(toks, i) ==
    Try(parse_factor(toks, i), LAMBDA expression :
    parse_binary_loop(toks, expression.i, expression.node, {"Plus", "Minus"}))

parse_factor(toks, i) ==
    Try(parse_unary(toks, i), LAMBDA expression :
    parse_binary_loop(toks, expression.i, expression.node,
                      {"Asterisk", "Slash", "Percent"}))

is_unary_operator(kind) == kind \in {"Plus", "Minus", "Bang", "Ampersand"}

parse_unary(toks, i) ==
    IF current(toks, i).t # "ok" THEN current(toks, i)
    ELSE IF is_unary_operator(toks[i + 1].kind)
    THEN LET kind == toks[i + 1].kind
             \* the Ampersand arm advances before it looks for `mut`
             j == IF kind = "Ampersand" THEN advance(toks, i) ELSE i
             operator == CASE kind = "Plus" -> "Plus"
                           [] kind = "Minus" -> "Minus"
                           [] kind = "Bang" -> "Bang"
                           [] kind = "Ampersand" ->
                                IF check(toks, j, "Mut") THEN "MutableAddressOf"
                                                         ELSE "AddressOf"
         IN  Try(parse_unary(toks, advance(toks, j)), LAMBDA expression :
             POk(expression.i, Unary(operator, expression.node)))
    ELSE parse_call(toks, i)

\* while !self.check(close) { push(parse_expression()?); if !check(close) { consume(Comma)? } }
parse_expression_list(toks, i, close, acc) ==
    IF check(toks, i, close)
    THEN POk(i, acc)
    ELSE Try(parse_expression(toks, i), LAMBDA expression :
         IF check(toks, expression.i, close)
         THEN POk(expression.i, Append(acc, expression.node))
         ELSE Try(consume(toks, expression.i, "Comma"), LAMBDA comma :
              parse_expression_list(toks, comma.i, close,
                                    Append(acc, expression.node))))

\* the members of a struct literal: [identifier] = expression, ...
parse_struct_literal_members(toks, i, acc) ==
    IF check(toks, i, "CloseBrace")
    THEN POk(i, acc)
    ELSE LET named == check(toks, i, "Identifier")
             identifier == IF named THEN Some(SpannedId(toks[i + 1])) ELSE None
         IN  Try(consume(toks, IF named THEN i + 1 ELSE i, "Equals"), LAMBDA equals :
             Try(parse_expression(toks, equals.i), LAMBDA expression :
             IF check(toks, expression.i, "CloseBrace")
             THEN POk(expression.i,
                      Append(acc, [name |-> identifier, value |-> expression.node]))
             ELSE Try(consume(toks, expression.i, "Comma"), LAMBDA comma :
                  parse_struct_literal_members(toks, comma.i,
                      Append(acc, [name |-> identifier,
                                   value |-> expression.node])))))

\* the postfix loop of parse_call
parse_call_loop(toks, i, expression) ==
    IF check(toks, i, "OpenParenthesis")
    THEN Try(parse_expression_list(toks, i + 1, "CloseParenthesis", <<>>), LAMBDA arguments :
         Try(consume(toks, arguments.i, "CloseParenthesis"), LAMBDA close :
         parse_call_loop(toks, close.i, Call(expression, arguments.node))))
    ELSE IF check(toks, i, "OpenBracket")
    THEN Try(parse_expression(toks, i + 1), LAMBDA index :
         Try(consume(toks, index.i, "CloseBracket"), LAMBDA close :
         parse_call_loop(toks, close.i, Index(expression, index.node))))
    ELSE IF check(toks, i, "OpenBrace")
    THEN Try(parse_struct_literal_members(toks, i + 1, <<>>), LAMBDA members :
         Try(consume(toks, members.i, "CloseBrace"), LAMBDA close :
         parse_call_loop(toks, close.i, StructLiteral(expression, members.node))))
    ELSE IF check(toks, i, "Dot")
    THEN Try(consume(toks, i + 1, "Identifier"), LAMBDA identifier :
         parse_call_loop(toks, identifier.i,
                         Member(expression, SpannedId(identifier.node))))
    ELSE POk(i, expression)

parse_call(toks, i) ==
    Try(parse_primary(toks, i), LAMBDA expression :
    parse_call_loop(toks, expression.i, expression.node))

parse_primary(toks, i) ==
    IF check(toks, i, "Identifier")
    THEN POk(i + 1, Identifier(SpannedId(toks[i + 1])))
    ELSE IF check(toks, i, "String")
    THEN POk(i + 1, StringLit(SpannedId(toks[i + 1])))
    ELSE IF check(toks, i, "Character")
    THEN IF toks[i + 1].value = <<>>
         THEN PPanic(i + 1, "unreachable")
         ELSE POk(i + 1, CharacterLit(spanned(toks[i + 1].value[1], toks[i + 1].span)))
    ELSE IF check(toks, i, "Integer")
    THEN POk(i + 1, IntegerLit(spanned(DigitsValue(toks[i + 1].value), toks[i + 1].span)))
    ELSE IF check(toks, i, "FloatingPoint")
    THEN POk(i + 1, FloatingPointLit(spanned(ParseFloat(toks[i + 1].value),
                                             toks[i + 1].span)))
    ELSE IF check(toks, i, "Boolean")
    THEN POk(i + 1, BooleanLit(spanned(Concat(toks[i + 1].value) = "true",
                                       toks[i + 1].span)))
    ELSE IF check(toks, i, "OpenBracket")
    THEN Try(parse_expression_list(toks, i + 1, "CloseBracket", <<>>), LAMBDA elements :
         Try(consume(toks, elements.i, "CloseBracket"), LAMBDA close :
         POk(close.i, ArrayLiteral(elements.node))))
    ELSE Try(current(toks, i), LAMBDA token :
         PErr(i, Error("expected an expression", token.node.kind, token.node.span)))

RECURSIVE parse_statement(_, _), parse_block(_, _), parse_block_loop(_, _, _),
          parse_function(_, _), parse_for(_, _)

\* the field and parameter lists: identifier : type, ...
RECURSIVE parse_members(_, _, _, _)
parse_members(toks, i, close, acc) ==
    IF check(toks, i, close)
    THEN POk(i, acc)
    ELSE Try(consume(toks, i, "Identifier"), LAMBDA identifier :
         Try(consume(toks, identifier.i, "Colon"), LAMBDA colon :
         Try(parse_type(toks, colon.i), LAMBDA type_ :
         IF check(toks, type_.i, close)
         THEN POk(type_.i,
                  Append(acc, <<SpannedId(identifier.node), type_.node>>))
         ELSE Try(consume(toks, type_.i, "Comma"), LAMBDA comma :
              parse_members(toks, comma.i, close,
                  Append(acc, <<SpannedId(identifier.node), type_.node>>))))))

parse_import(toks, i) ==
    Try(consume(toks, i, "Import"), LAMBDA import :
    Try(consume(toks, import.i, "Identifier"), LAMBDA identifier :
    POk(identifier.i, Import(SpannedId(identifier.node)))))

parse_struct(toks, i) ==
    Try(consume(toks, i, "Struct"), LAMBDA struct :
    Try(consume(toks, struct.i, "Identifier"), LAMBDA identifier :
    Try(consume(toks, identifier.i, "OpenBrace"), LAMBDA open :
    Try(parse_members(toks, open.i, "CloseBrace", <<>>), LAMBDA members :
    Try(consume(toks, members.i, "CloseBrace"), LAMBDA close :
    POk(close.i,
        Struct(SpannedId(identifier.node), <<>>, members.node)))))))

\* if self.check(mark) { self.consume(mark)?; Some(self.parse_type()?) } else { None }
parse_optional_type(toks, i, mark) ==
    IF check(toks, i, mark)
    THEN Try(parse_type(toks, i + 1), LAMBDA type_ :
         POk(type_.i, Some(type_.node)))
    ELSE POk(i, None)

\* [: type] = expression ;   shared by parse_variable and parse_constant
parse_binding(toks, i, keyword) ==
    Try(consume(toks, i, keyword), LAMBDA kw :
    Try(consume(toks, kw.i, "Identifier"), LAMBDA identifier :
    Try(parse_optional_type(toks, identifier.i, "Colon"), LAMBDA type_ :
    Try(consume(toks, type_.i, "Equals"), LAMBDA equals :
    Try(parse_expression(toks, equals.i), LAMBDA expression :
    Try(consume(toks, expression.i, "Semicolon"), LAMBDA semicolon :
    POk(semicolon.i,
        [spanned_id |-> SpannedId(identifier.node),
         ty |-> type_.node,
         expression |-> expression.node])))))))

parse_variable(toks, i) ==
    Try(parse_binding(toks, i, "Var"), LAMBDA b :
    POk(b.i, Variable(b.node.spanned_id, b.node.ty, b.node.expression)))

parse_constant(toks, i) ==
    Try(parse_binding(toks, i, "Const"), LAMBDA b :
    POk(b.i, Constant(b.node.spanned_id, b.node.ty, b.node.expression)))

parse_return(toks, i) ==
    Try(consume(toks, i, "Return"), LAMBDA return :
    IF ~check(toks, return.i, "Semicolon")
    THEN Try(parse_expression(toks, return.i), LAMBDA expression :
         POk(expression.i, Return(Some(expression.node))))
    ELSE POk(return.i, Return(None)))

parse_function(toks, i) ==
    Try(consume(toks, i, "Fn"), LAMBDA fn :
    Try(consume(toks, fn.i, "Identifier"), LAMBDA identifier :
    Try(consume(toks, identifier.i, "OpenParenthesis"), LAMBDA open :
    Try(parse_members(toks, open.i, "CloseParenthesis", <<>>), LAMBDA parameters :
    Try(consume(toks, parameters.i, "CloseParenthesis"), LAMBDA close :
    Try(parse_optional_type(toks, close.i, "Arrow"), LAMBDA return_type :
    Try(parse_statement(toks, return_type.i), LAMBDA body :
    POk(body.i, Function(SpannedId(identifier.node), parameters.node,
                         return_type.node,
                         body.node)))))))))

parse_for(toks, i) ==
    Try(consume(toks, i, "For"), LAMBDA for :
    Try(consume(toks, for.i, "OpenParenthesis"), LAMBDA open :
    Try(consume(toks, open.i, "Identifier"), LAMBDA identifier :
    Try(consume(toks, identifier.i, "In"), LAMBDA in :
    Try(parse_expression(toks, in.i), LAMBDA expression :
    Try(consume(toks, expression.i, "CloseParenthesis"), LAMBDA close :
    Try(parse_statement(toks, close.i), LAMBDA body :
    POk(body.i, For(SpannedId(identifier.node), expression.node, body.node)))))))))

\* while !self.is_at_end() && !self.check(CloseBrace) { skip `;` or push a statement }
parse_block_loop(toks, i, statements) ==
    IF ~is_at_end(toks, i) /\ ~check(toks, i, "CloseBrace")
    THEN IF toks[i + 1].kind = "Semicolon"
         THEN parse_block_loop(toks, advance(toks, i), statements)
         ELSE Try(parse_statement(toks, i), LAMBDA statement :
              parse_block_loop(toks, statement.i, Append(statements, statement.node)))
    ELSE POk(i, statements)

parse_block(toks, i) ==
    Try(consume(toks, i, "OpenBrace"), LAMBDA open :
    Try(parse_block_loop(toks, open.i, <<>>), LAMBDA statements :
    Try(consume(toks, statements.i, "CloseBrace"), LAMBDA close :
    POk(close.i, Block(statements.node)))))

parse_expression_statement(toks, i) ==
    Try(parse_expression(toks, i), LAMBDA expression :
    Try(consume(toks, expression.i, "Semicolon"), LAMBDA semicolon :
    POk(semicolon.i, ExpressionStatement(expression.node))))

parse_statement(toks, i) ==
    IF current(toks, i).t # "ok" THEN current(toks, i)
    ELSE LET kind == toks[i + 1].kind IN
         CASE kind = "OpenBrace" -> parse_block(toks, i)
           [] kind = "Import" -> parse_import(toks, i)
           [] kind = "Struct" -> parse_struct(toks, i)
           [] kind = "Fn" -> parse_function(toks, i)
           [] kind = "Var" -> parse_variable(toks, i)
           [] kind = "Const" -> parse_constant(toks, i)
           [] kind = "For" -> parse_for(toks, i)
           [] kind = "Return" -> parse_return(toks, i)
           [] kind = "Eof" -> POk(advance(toks, i), Garbage)
           [] OTHER -> parse_expression_statement(toks, i)

\* Parser::new and the locals of Parser::parse; result is set when parse returns
ParserInit == [index |-> 0, statements |-> <<>>, errors |-> <<>>, panicked |-> FALSE]

\* a match that gives up at the first error: the cursor goes to the end
parse_match_stopping(toks, P, statement) ==
    CASE statement.t = "ok" ->
            [P EXCEPT !.index = statement.i,
                      !.statements = Append(@, statement.node)]
      [] statement.t = "err" ->
            [P EXCEPT !.index = Len(toks),
                      !.errors = Append(@, statement.error)]
      [] OTHER -> [P EXCEPT !.index = statement.i, !.panicked = TRUE]

\* match self.parse_statement() { Ok(statement) => push, Err(error) => push and advance }
parse_match(toks, P, statement) ==
    CASE statement.t = "ok" ->
            [P EXCEPT !.index = statement.i,
                      !.statements = Append(@, statement.node)]
      [] statement.t = "err" ->
            [P EXCEPT !.index = advance(toks, statement.i),
                      !.errors = Append(@, statement.error)]
      [] OTHER -> [P EXCEPT !.index = statement.i, !.panicked = TRUE]

\* one iteration of `while !self.is_at_end()` in Parser::parse
parse_iteration(toks, P) == parse_match(toks, P, parse_statement(toks, P.index))

RECURSIVE parse_loop(_, _)
parse_loop(toks, P) ==
    IF P.panicked \/ is_at_end(toks, P.index)
    THEN P
    ELSE parse_loop(toks, parse_iteration(toks, P))

\* what Parser::parse returns once the loop is over
parse_result(P) ==
    IF P.errors = <<>>
    THEN [ok |-> TRUE, value |-> P.statements, error |-> <<>>]
    ELSE [ok |-> FALSE, value |-> <<>>, error |-> P.errors]

parse(toks) == parse_result(parse_loop(toks, ParserInit))

(***************************************************************************)
(* Symbol collection (src/codegen/codegen.rs)                              *)
(***************************************************************************)
\* CodegenState::new(): symbol_table is a map from names to ids, symbols the
\* list of (SymbolId, SymbolType); ids count from 0
CodegenStateNew == [symbol_table |-> <<>>, symbols |-> <<>>]

\* state.symbol_table.insert(name, symbols.len()); state.symbols.push((id, kind))
InsertSymbol(st, name, kind) ==
    LET symbol_id == Len(st.symbols) IN
    [symbol_table |-> [n \in (DOMAIN st.symbol_table) \cup {name} |->
                          IF n = name THEN symbol_id ELSE st.symbol_table[n]],
     symbols |-> Append(st.symbols, <<symbol_id, kind>>)]

RECURSIVE get_symbol(_, _), get_symbols(_, _)

get_symbol(st, statement) ==
    CASE statement.k \in {"Variable", "Constant"} ->
            InsertSymbol(st, statement.spanned_id[1], "Variable")
      [] statement.k = "Enum" -> InsertSymbol(st, statement.spanned_id[1], "Enum")
      [] statement.k = "Block" -> get_symbols(st, statement.statements)
      [] statement.k = "Function" ->
            get_symbol(InsertSymbol(st, statement.spanned_id[1], "Function"), statement.body)
      [] OTHER -> st

get_symbols(st, statements) ==
    IF statements = <<>> THEN st
    ELSE get_symbols(get_symbol(st, Head(statements)), Tail(statements))

\* the name whose table entry is the index of the first symbol with this id
get_symbol_from_id(st, id) ==
    LET found == {i \in 1..Len(st.symbols) : st.symbols[i][1] = id} IN
    IF found = {} THEN "<unreachable>"
    ELSE LET i == (CHOOSE j \in found : \A m \in found : j <= m) - 1
             names == {n \in DOMAIN st.symbol_table : st.symbol_table[n] = i}
         IN  IF names = {} THEN "<unwrap on None>" ELSE CHOOSE n \in names : TRUE

(***************************************************************************)
(* Code generation (src/codegen/codegen.rs).  A generated String is the    *)
(* sequence of its fragments.                                              *)
(***************************************************************************)
RECURSIVE Flatten(_)
Flatten(texts) == IF texts = <<>> THEN <<>> ELSE Head(texts) \o Flatten(Tail(texts))

\* for (i, x) in xs { push(x); if i != xs.len() - 1 { push(", ") } }
RECURSIVE CommaSeparated(_)
CommaSeparated(texts) ==
    IF texts = <<>> THEN <<>>
    ELSE IF Len(texts) = 1 THEN texts[1]
    ELSE Head(texts) \o <<", ">> \o CommaSeparated(Tail(texts))

RECURSIVE codegen_type(_)
codegen_type(ty) ==
    CASE ty.k = "Integer" -> <<"int">>
      [] ty.k = "UnsignedInteger" -> <<"unsigned int">>
      [] ty.k = "FloatingPoint" -> <<"float">>
      [] ty.k = "Character" -> <<"char">>
      [] ty.k = "Boolean" -> <<"bool">>
      [] ty.k = "Reference" -> <<"const ">> \o codegen_type(ty.inner) \o <<"&">>
      [] ty.k = "MutableReference" -> codegen_type(ty.inner) \o <<"&">>
      [] ty.k = "Function" ->
            codegen_type(ty.ret) \o <<"(">>
            \o CommaSeparated([i \in 1..Len(ty.types) |-> codegen_type(ty.types[i])])
            \o <<")">>
      [] ty.k = "Member" -> codegen_type(ty.inner) \o <<"::", ty.member[1]>>
      [] ty.k = "Identifier" -> <<ty.v[1]>>
      [] ty.k = "Polymorphic" ->
            <<ty.v[1], "<">>
            \o CommaSeparated([i \in 1..Len(ty.types) |-> codegen_type(ty.types[i])])
            \o <<">">>

\* CheckedType
CheckedEnum(spanned_id) == [k |-> "Enum", v |-> spanned_id]
CheckedIdentifier(spanned_id) == [k |-> "Identifier", v |-> spanned_id]
CheckedPolymorphic(spanned_id, types) == [k |-> "Polymorphic", v |-> spanned_id, types |-> types]

\* impl PartialEq for CheckedType: eq is always false
CheckedTypeEq(a, b) == FALSE

\* the outcome of a generation function: t is "ok", "err" or "panic"; st is the
\* CodegenState the function leaves behind its &mut reference
GOk(st, value) == [t |-> "ok", st |-> st, value |-> value, error |-> NoError]
GErr(st, error) == [t |-> "err", st |-> st, value |-> <<>>, error |-> error]
GPanic(st, what) == [t |-> "panic", st |-> st, value |-> <<>>, error |-> Error("panic", what, NoSpan)]

RECURSIVE get_checked_type_of_expression(_, _), checked_types_of(_, _, _)

\* for expression in expressions { types.push(get_checked_type_of_expression(..)?) }
checked_types_of(st, expressions, acc) ==
    IF expressions = <<>> THEN GOk(st, acc)
    ELSE Try(get_checked_type_of_expression(st, Head(expressions)), LAMBDA ty :
         checked_types_of(ty.st, Tail(expressions), Append(acc, ty.value)))

\* for ty in types { if ty != result { result = Polymorphic("Array", [result, ty]) } }
RECURSIVE FoldArrayTypes(_, _)
FoldArrayTypes(result, types) ==
    IF types = <<>> THEN result
    ELSE FoldArrayTypes(
            IF ~CheckedTypeEq(Head(types), result)
            THEN CheckedPolymorphic(spanned("Array", NoSpan), <<result, Head(types)>>)
            ELSE result,
            Tail(types))

\* a type check that records a symbol of its own in the state it is given
get_checked_type_recording(st, expression) ==
    GOk(InsertSymbol(st, "<checked>", "Variable"), [k |-> "Integer"])

get_checked_type_of_expression(st, expression) ==
    CASE expression.k = "Integer" -> GOk(st, [k |-> "Integer"])
      [] expression.k = "FloatingPoint" -> GOk(st, [k |-> "FloatingPoint"])
      [] expression.k = "Character" -> GOk(st, [k |-> "Character"])
      [] expression.k = "String" -> GPanic(st, "unreachable")
      [] expression.k = "Boolean" -> GOk(st, [k |-> "Boolean"])
      [] expression.k = "Identifier" ->
            IF expression.v[1] \notin DOMAIN st.symbol_table
            THEN GErr(st, Error("undefined symbol", expression.v[1], expression.v[2]))
            ELSE LET symbol_id == st.symbol_table[expression.v[1]]
                     symbol_type == st.symbols[symbol_id + 1][2]
                     name == get_symbol_from_id(st, st.symbols[symbol_id + 1][1])
                 IN  CASE name \in {"<unreachable>", "<unwrap on None>"} ->
                            GPanic(st, name)
                       [] symbol_type = "Enum" ->
                            GOk(st, CheckedEnum(spanned(name, expression.v[2])))
                       [] symbol_type = "Variable" ->
                            GOk(st, CheckedIdentifier(spanned(name, expression.v[2])))
                       [] OTHER -> GPanic(st, "unreachable")
      [] expression.k = "ArrayLiteral" ->
            Try(checked_types_of(st, expression.expressions, <<>>), LAMBDA types :
            IF types.value = <<>> THEN GPanic(types.st, "index out of bounds")
            ELSE GOk(types.st,
                     CheckedPolymorphic(spanned("Array", NoSpan),
                                        <<FoldArrayTypes(types.value[1], types.value)>>)))
      [] OTHER -> GPanic(st, "unreachable")

RECURSIVE codegen_expression(_, _), codegen_expressions(_, _, _)

\* the lowering of each expression of a list, in order, through one state
codegen_expressions(st, expressions, acc) ==
    IF expressions = <<>> THEN GOk(st, acc)
    ELSE Try(codegen_expression(st, Head(expressions)), LAMBDA e :
         codegen_expressions(e.st, Tail(expressions), Append(acc, e.value)))

BooleanToString(b) == IF b THEN "true" ELSE "false"

\* the separator of a value member, whatever the base is
MemberSeparatorDot(checked_type) == "."

\* match get_checked_type_of_expression(state, expression)?
\*     { CheckedType::Enum(_) => "::", _ => "." }
MemberSeparator(checked_type) == IF checked_type.k = "Enum" THEN "::" ELSE "."

codegen_expression(st, expr) ==
    CASE expr.k = "Integer" -> GOk(st, <<IntToString(expr.v[1])>>)
      [] expr.k = "FloatingPoint" -> GOk(st, <<FloatToString(expr.v[1])>>)
      [] expr.k = "Character" -> GOk(st, <<expr.v[1]>>)
      [] expr.k = "String" -> GOk(st, <<"\"", expr.v[1], "\"">>)
      [] expr.k = "Boolean" -> GOk(st, <<BooleanToString(expr.v[1])>>)
      [] expr.k = "Identifier" -> GOk(st, <<expr.v[1]>>)
      [] expr.k = "ArrayLiteral" ->
            Try(codegen_expressions(st, expr.expressions, <<>>), LAMBDA elements :
            GOk(elements.st, <<"{">> \o CommaSeparated(elements.value) \o <<"}">>))
      [] expr.k = "StructLiteral" ->
            Try(codegen_expression(st, expr.expression), LAMBDA ty :
            Try(codegen_expressions(ty.st, [i \in 1..Len(expr.fields) |-> expr.fields[i].value], <<>>), LAMBDA fields :
            GOk(fields.st,
                ty.value \o <<"{">> \o CommaSeparated(fields.value) \o <<"}">>)))
      [] expr.k = "Call" ->
            Try(codegen_expression(st, expr.expression), LAMBDA callee :
            Try(codegen_expressions(callee.st, expr.arguments, <<>>), LAMBDA arguments :
            GOk(arguments.st,
                callee.value \o <<"(">> \o CommaSeparated(arguments.value)
                \o <<")">>)))
      [] expr.k = "Member" ->
            Try(codegen_expression(st, expr.expression), LAMBDA base :
            Try(get_checked_type_of_expression(base.st, expr.expression), LAMBDA ty :
            GOk(ty.st,
                base.value \o <<MemberSeparator(ty.value)>>
                \o <<expr.member[1]>>)))
      [] expr.k = "Unary" ->
            Try(codegen_expression(st, expr.expression), LAMBDA operand :
            CASE expr.operator = "Minus" -> GOk(operand.st, <<"-">> \o operand.value)
              [] expr.operator = "Bang" -> GOk(operand.st, <<"!">> \o operand.value)
              [] expr.operator = "Plus" -> GOk(operand.st, <<"+">> \o operand.value)
              [] expr.operator = "AddressOf" -> GOk(operand.st, operand.value)
              [] expr.operator = "MutableAddressOf" -> GOk(operand.st, operand.value)
              [] OTHER -> GPanic(operand.st, "unreachable"))
      [] OTHER -> GOk(st, <<>>)

\* format!("template <{}>\n", hpp_generic_parameters) unless there are none
TemplatePreamble(generic_parameters) ==
    IF Len(generic_parameters) = 0 THEN <<>>
    ELSE <<"template <">>
         \o CommaSeparated([i \in 1..Len(generic_parameters) |->
                               <<"typename ", generic_parameters[i][1]>>])
         \o <<">\n">>

\* the parameters in the reverse of the declared order
ParameterListReversed(parameters) ==
    CommaSeparated([i \in 1..Len(parameters) |->
                       codegen_type(parameters[Len(parameters) + 1 - i][2])
                       \o <<" ", parameters[Len(parameters) + 1 - i][1][1]>>])

\* "{} {}" of each parameter or field, separated by ", "
ParameterList(parameters) ==
    CommaSeparated([i \in 1..Len(parameters) |->
                       codegen_type(parameters[i][2]) \o <<" ", parameters[i][1][1]>>])

codegen_struct(statement) ==
    LET name == statement.spanned_id[1]
        fields == statement.fields
        generic_parameters == statement.generic_parameters
        hpp_fields ==
            Flatten([i \in 1..Len(fields) |->
                        <<"    ">> \o codegen_type(fields[i][2])
                        \o <<" ", fields[i][1][1], ";\n">>])
        hpp_generic_parameters_no_typename ==
            CommaSeparated([i \in 1..Len(generic_parameters) |-> <<generic_parameters[i][1]>>])
        constructor_code ==
            <<name, "(">> \o ParameterList(fields) \o <<") ">>
            \o (IF Len(fields) = 0 THEN <<>> ELSE <<": ">>)
            \o CommaSeparated([i \in 1..Len(fields) |->
                                  <<fields[i][1][1], "(", fields[i][1][1], ")">>])
            \o <<" {}\n">>
            \o <<"    ~", name, "() = default;\n">>
        formatter_code ==
            <<"std::string format() const {\n", "    std::stringstream ss;\n",
              "    ss << \"", name, "{\"">>
            \o Flatten([i \in 1..Len(fields) |->
                           <<" << \"", fields[i][1][1], " = \" << ", fields[i][1][1]>>
                           \o (IF i # Len(fields) THEN <<" << \", \"">> ELSE <<>>)])
            \o <<" << \"}\";\n", "    return ss.str();\n", "}\n">>
    IN  TemplatePreamble(generic_parameters)
        \o <<"struct ", name, " : public Formatter<", name>>
        \o (IF Len(generic_parameters) = 0 THEN <<>>
            ELSE <<"<">> \o hpp_generic_parameters_no_typename \o <<">">>)
        \o <<"> {\n">> \o hpp_fields \o <<"\n">> \o constructor_code \o <<"\n">>
        \o formatter_code \o <<"\n};\n">>

codegen_union(statement) ==
    LET name == statement.spanned_id[1]
        variants == statement.variants
    IN  IF statement.tagged
        THEN TemplatePreamble(statement.generic_parameters)
             \o <<"using ", name, " = TaggedUnion<">>
             \o CommaSeparated([i \in 1..Len(variants) |-> codegen_type(variants[i][2])])
             \o <<">;\n">>
        ELSE TemplatePreamble(statement.generic_parameters)
             \o <<"union ", name, " {\n">>
             \o Flatten([i \in 1..Len(variants) |->
                            <<"    ">> \o codegen_type(variants[i][2])
                            \o (IF variants[i][1].k = "Some"
                                THEN <<" ", variants[i][1].v[1]>> ELSE <<>>)
                            \o <<";\n">>])
             \o <<"};\n">>

RECURSIVE codegen_statement(_, _), codegen_block_statements(_, _, _),
          codegen_enum_variants(_, _, _)

\* for variant in variants { "    name" [" = " expression] ",\n" }
codegen_enum_variants(st, variants, acc) ==
    IF variants = <<>> THEN GOk(st, acc)
    ELSE LET variant == Head(variants) IN
         IF variant[2].k = "Some"
         THEN Try(codegen_expression(st, variant[2].v), LAMBDA e :
              codegen_enum_variants(e.st, Tail(variants),
                  acc \o <<"    ", variant[1][1], " = ">> \o e.value \o <<",\n">>))
         ELSE codegen_enum_variants(st, Tail(variants),
                  acc \o <<"    ", variant[1][1], ",\n">>)

\* for statement in statements { let (cpp_statement, _) = codegen_statement(..)?; push }
codegen_block_statements(st, statements, acc) ==
    IF statements = <<>> THEN GOk(st, acc)
    ELSE Try(codegen_statement(st, Head(statements)), LAMBDA g :
         codegen_block_statements(g.st, Tail(statements), acc \o g.value[1]))

TypeOrAuto(ty) == IF ty.k = "None" THEN <<"auto">> ELSE codegen_type(ty.v)
TypeOrVoid(ret) == IF ret.k = "None" THEN <<"void">> ELSE codegen_type(ret.v)

\* "{} {}({}" of the return type, the name and the parameters
FunctionSignature(statement) ==
    TypeOrVoid(statement.ret) \o <<" ", statement.spanned_id[1], "(">>
    \o ParameterList(statement.parameters)

\* the value of an Ok is the pair (cpp, hpp)
codegen_statement(st, statement) ==
    CASE statement.k = "Import" ->
            GOk(st, <<<<>>, <<"#include <", statement.spanned_id[1], ".hpp>\n">>>>)
      [] statement.k = "Struct" -> GOk(st, <<<<>>, codegen_struct(statement)>>)
      [] statement.k = "Enum" ->
            Try(codegen_enum_variants(st, statement.variants, <<>>), LAMBDA hpp_variants :
            GOk(hpp_variants.st,
                <<<<>>,
                  TemplatePreamble(statement.generic_parameters)
                  \o <<"enum class ", statement.spanned_id[1]>>
                  \o (IF statement.base_type.k = "None" THEN <<>>
                      ELSE <<" : ">> \o codegen_type(statement.base_type.v))
                  \o <<" {\n">> \o hpp_variants.value \o <<"};\n">> >>))
      [] statement.k = "Union" -> GOk(st, <<<<>>, codegen_union(statement)>>)
      [] statement.k = "Function" ->
            Try(codegen_statement(st, statement.body), LAMBDA body :
            GOk(body.st,
                << FunctionSignature(statement) \o <<") {\n">> \o body.value[1]
                   \o <<"}\n">>,
                   FunctionSignature(statement) \o <<");\n">> >>))
      [] statement.k = "Constant" ->
            Try(codegen_expression(st, statement.expression), LAMBDA expression :
            GOk(expression.st,
                << <<"const ">> \o TypeOrAuto(statement.ty)
                   \o <<" ", statement.spanned_id[1], " = ">>
                   \o expression.value \o <<";\n">>,
                   <<>> >>))
      [] statement.k = "Variable" ->
            Try(codegen_expression(st, statement.expression), LAMBDA expression :
            GOk(expression.st,
                << TypeOrAuto(statement.ty)
                   \o <<" ", statement.spanned_id[1], " = ">>
                   \o expression.value \o <<";\n">>,
                   <<>> >>))
      [] statement.k = "Block" ->
            Try(codegen_block_statements(st, statement.statements, <<>>), LAMBDA cpp_statements :
            GOk(cpp_statements.st,
                << <<"{\n">> \o cpp_statements.value \o <<"}\n">>, <<>> >>))
      [] statement.k = "Return" ->
            IF statement.expression.k = "None"
            THEN GOk(st, << <<"return;\n">>, <<>> >>)
            ELSE Try(codegen_expression(st, statement.expression.v), LAMBDA expression :
                 GOk(expression.st,
                     << <<"return ">> \o expression.value \o <<";\n">>, <<>> >>))
      [] statement.k = "For" ->
            Try(codegen_expression(st, statement.expression), LAMBDA expression :
            Try(codegen_statement(expression.st, statement.body), LAMBDA body :
            GOk(body.st,
                << <<"for (auto ", statement.spanned_id[1], " : ">>
                   \o expression.value \o <<") {\n">> \o body.value[1]
                   \o <<"}\n">>,
                   <<>> >>)))
      [] statement.k = "Expression" ->
            Try(codegen_expression(st, statement.expression), LAMBDA expression :
            GOk(expression.st, << expression.value \o <<";\n">>, <<>> >>))
      [] OTHER -> GOk(st, << <<>>, <<>> >>)

\* the loop of codegen over the top-level statements
RECURSIVE codegen_loop(_, _, _, _)
codegen_loop(st, statements, cpp, hpp) ==
    IF statements = <<>> THEN GOk(st, <<cpp, hpp>>)
    ELSE Try(codegen_statement(st, Head(statements)), LAMBDA g :
         codegen_loop(g.st, Tail(statements), cpp \o g.value[1], hpp \o g.value[2]))

codegen(st, filename, statements) ==
    codegen_loop(st, statements,
                 <<"#include <prelude.hpp>\n#include \"", filename, ".hpp\"\n">>,
                 <<"#pragma once\n#include <prelude.hpp>\n">>)

(***************************************************************************)
(* Tokenizer (src/tokenizer.rs), the indentation-aware tokenizer that      *)
(* Compiler::compile (src/compiler.rs) uses                                *)
(***************************************************************************)
\* Tokenizer::new: index counts from 0, the stack holds (indent, continuation)
TokenizerNew == [index |-> 0, line |-> 1, column |-> 1, indent_stack |-> <<<<0, FALSE>>>>]

\* Token::new(kind, lexeme, span) of src/tokenizer.rs
OldToken(kind, lexeme, span) == [kind |-> kind, lexeme |-> lexeme, span |-> span]

NoToken == OldToken("", <<>>, NoSpan)

TOk(tz, token) == [t |-> "ok", tz |-> tz, token |-> token, error |-> NoError]
TErr(tz, message, arg, span) ==
    [t |-> "err", tz |-> tz, token |-> NoToken, error |-> Error(message, arg, span)]
TPanic(tz, what) ==
    [t |-> "panic", tz |-> tz, token |-> NoToken, error |-> Error("panic", what, NoSpan)]

construct_span(tz, length) == Span(tz.line, tz.column, tz.column + length)

\* self.contents.chars().nth(self.index)
TzCurrent(text, tz) == CharAt(text, tz.index + 1)

\* self.index += n; self.column += n
TzSkip(tz, n) == [tz EXCEPT !.index = @ + n, !.column = @ + n]

single_token(tz, kind) == TOk(TzSkip(tz, 1), OldToken(kind, <<>>, construct_span(tz, 1)))

double_token(text, tz, char_1, kind_1, char_2, kind_2) ==
    LET tz1 == TzSkip(tz, 1) IN
    IF TzCurrent(text, tz1) = NoChar
    THEN TPanic(tz1, "unwrap on None")
    ELSE IF TzCurrent(text, tz1) = char_2
         THEN TOk(TzSkip(tz1, 1),
                  OldToken(kind_2, <<char_1, char_2>>, construct_span(TzSkip(tz1, 1), 2)))
         ELSE TOk(tz1, OldToken(kind_1, <<char_1>>, construct_span(tz1, 1)))

OldKeywordKind(value) ==
    CASE value = "as" -> "As"
      [] value = "const" -> "Const"
      [] value = "fn" -> "Fn"
      [] value = "for" -> "For"
      [] value = "in" -> "In"
      [] value = "import" -> "Import"
      [] value = "mut" -> "Mut"
      [] value = "return" -> "Return"
      [] value = "struct" -> "Struct"
      [] value = "var" -> "Var"
      [] value = "float" -> "Float"
      [] value = "int" -> "Int"
      [] OTHER -> "Identifier"

\* MeasureIndent, had it skipped the `\` without recording it
RECURSIVE MeasureIndent_unmarked(_, _, _)
MeasureIndent_unmarked(text, p, acc) ==
    LET c == CharAt(text, p) IN
    CASE c = " " ->
            MeasureIndent_unmarked(text, p + 1, [acc EXCEPT !.indent = @ + 1, !.read = @ + 1])
      [] c = "\t" ->
            MeasureIndent_unmarked(text, p + 1, [acc EXCEPT !.indent = @ + 4, !.read = @ + 1])
      [] c \in {"\r", "\\"} -> MeasureIndent_unmarked(text, p + 1, [acc EXCEPT !.read = @ + 1])
      [] OTHER -> acc

\* the indentation after a newline: the width, whether a `\` was seen, and
\* how many characters were read
RECURSIVE MeasureIndent(_, _, _)
MeasureIndent(text, p, acc) ==
    LET c == CharAt(text, p) IN
    CASE c = " " -> MeasureIndent(text, p + 1, [acc EXCEPT !.indent = @ + 1, !.read = @ + 1])
      [] c = "\t" -> MeasureIndent(text, p + 1, [acc EXCEPT !.indent = @ + 4, !.read = @ + 1])
      [] c = "\r" -> MeasureIndent(text, p + 1, [acc EXCEPT !.read = @ + 1])
      [] c = "\\" -> MeasureIndent(text, p + 1,
                                   [acc EXCEPT !.continuation = TRUE, !.read = @ + 1])
      [] OTHER -> acc

\* next_token_linefeed, had it opened a level for a line as wide as the top
next_token_linefeed_reopening(text, tz) ==
    LET m == MeasureIndent(text, tz.index + 2,
                           [indent |-> 0, continuation |-> FALSE, read |-> 0])
        tz1 == [tz EXCEPT !.index = @ + 1 + m.read, !.line = @ + 1, !.column = 1 + m.read]
        prev == tz.indent_stack[Len(tz.indent_stack)]
        popped == SubSeq(tz.indent_stack, 1, Len(tz.indent_stack) - 1)
    IN  IF m.indent >= prev[1]
        THEN TOk([tz1 EXCEPT !.indent_stack = Append(@, <<m.indent, m.continuation>>)],
                 OldToken("Indent", <<>>, construct_span(tz1, 1)))
        ELSE IF popped # <<>> /\ m.indent < popped[Len(popped)][1]
             THEN TErr([tz1 EXCEPT !.indent_stack = popped], "inconsistent indentation", "",
                       construct_span(tz1, 1))
             ELSE TOk([tz1 EXCEPT !.indent_stack = popped],
                      OldToken("Dedent", <<>>, construct_span(tz1, 1)))

\* next_token_linefeed, had it popped every level wider than the line
next_token_linefeed_unwinding(text, tz) ==
    LET m == MeasureIndent(text, tz.index + 2,
                           [indent |-> 0, continuation |-> FALSE, read |-> 0])
        tz1 == [tz EXCEPT !.index = @ + 1 + m.read, !.line = @ + 1, !.column = 1 + m.read]
        prev == tz.indent_stack[Len(tz.indent_stack)]
        unwound == SelectSeq(tz.indent_stack, LAMBDA level : level[1] <= m.indent)
    IN  IF m.indent > prev[1]
        THEN TOk([tz1 EXCEPT !.indent_stack = Append(@, <<m.indent, m.continuation>>)],
                 OldToken("Indent", <<>>, construct_span(tz1, 1)))
        ELSE IF m.indent < prev[1]
        THEN TOk([tz1 EXCEPT !.indent_stack = unwound],
                 OldToken("Dedent", <<>>, construct_span(tz1, 1)))
        ELSE IF m.continuation /\ ~prev[2]
             THEN TErr(tz1, "inconsistent continuation", "", construct_span(tz1, 1))
             ELSE TOk(tz1, OldToken("Linefeed", <<>>, construct_span(tz1, 1)))

\* '\n': skip it, measure the indentation, compare it with the top of the stack
next_token_linefeed(text, tz) ==
    LET m == MeasureIndent(text, tz.index + 2,
                           [indent |-> 0, continuation |-> FALSE, read |-> 0])
        tz1 == [tz EXCEPT !.index = @ + 1 + m.read, !.line = @ + 1, !.column = 1 + m.read]
        prev == tz.indent_stack[Len(tz.indent_stack)]
        popped == SubSeq(tz.indent_stack, 1, Len(tz.indent_stack) - 1)
    IN  IF m.indent > prev[1]
        THEN TOk([tz1 EXCEPT !.indent_stack = Append(@, <<m.indent, m.continuation>>)],
                 OldToken("Indent", <<>>, construct_span(tz1, 1)))
        ELSE IF m.indent < prev[1]
        THEN IF popped # <<>> /\ m.indent < popped[Len(popped)][1]
             THEN TErr([tz1 EXCEPT !.indent_stack = popped], "inconsistent indentation", "",
                       construct_span(tz1, 1))
             ELSE TOk([tz1 EXCEPT !.indent_stack = popped],
                      OldToken("Dedent", <<>>, construct_span(tz1, 1)))
        ELSE IF m.continuation /\ ~prev[2]
             THEN TErr(tz1, "inconsistent continuation", "", construct_span(tz1, 1))
             ELSE TOk(tz1, OldToken("Linefeed", <<>>, construct_span(tz1, 1)))

next_token_identifier(text, tz) ==
    LET n == RunIn(text, tz.index + 2, IdentPart)
        value == SubSeq(text, tz.index + 1, tz.index + 1 + n)
        tz1 == TzSkip(tz, 1 + n)
    IN  TOk(tz1, OldToken(OldKeywordKind(Concat(value)), value, construct_span(tz1, Len(value))))

next_token_number(text, tz) ==
    LET first == tz.index + 1
        n == RunIn(text, first + 1, Digit)
        after == CharAt(text, first + 1 + n)
        sign == IF after \in {"e", "E"} /\ CharAt(text, first + 2 + n) \in {"+", "-"}
                THEN 1 ELSE 0
        m == CASE after = "." -> 1 + RunIn(text, first + 2 + n, Digit)
               [] after \in {"e", "E"} -> 1 + sign + RunIn(text, first + 2 + n + sign, Digit)
               [] OTHER -> 0
        value == SubSeq(text, first, first + n + m)
        tz1 == TzSkip(tz, 1 + n + m)
        kind == IF \E j \in 1..Len(value) : value[j] \in {".", "e", "E"}
                THEN "Floating" ELSE "Integer"
    IN  TOk(tz1, OldToken(kind, value, construct_span(tz1, Len(value))))

\* the body of a string literal from position p on: the decoded value, the
\* characters read, and how the scan ended
RECURSIVE ScanString(_, _, _)
ScanString(text, p, acc) ==
    LET c == CharAt(text, p)
        e == CharAt(text, p + 1)
    IN  CASE c = NoChar -> [acc EXCEPT !.end = "eof"]
          [] c = "\"" -> [acc EXCEPT !.read = @ + 1, !.end = "closed"]
          [] c = "\\" ->
                IF e \in {"n", "r", "t", "\\", "\""}
                THEN ScanString(text, p + 2,
                         [acc EXCEPT !.read = @ + 2,
                                     !.value = Append(@, CASE e = "n" -> "\n"
                                                           [] e = "r" -> "\r"
                                                           [] e = "t" -> "\t"
                                                           [] OTHER -> e)])
                ELSE [acc EXCEPT !.read = @ + 1, !.end = "escape"]
          [] OTHER -> ScanString(text, p + 1,
                                 [acc EXCEPT !.read = @ + 1, !.value = Append(@, c)])

next_token_string(text, tz) ==
    LET scan == ScanString(text, tz.index + 2, [value |-> <<>>, read |-> 0, end |-> ""])
        tz1 == TzSkip(tz, 1 + scan.read)
    IN  CASE scan.end = "closed" ->
                TOk(tz1, OldToken("String", scan.value,
                                  construct_span(tz1, Len(scan.value) + 2)))
          [] scan.end = "escape" ->
                TErr(tz1, "illegal escape sequence", "", construct_span(tz1, 1))
          [] OTHER -> TErr(tz1, "unexpected end of file", "", construct_span(tz1, 1))

\* a "//" comment: through the next newline, or to the end of input
SkipComment(text, tz) ==
    LET n == RunUntil(text, tz.index + 2, "\n") IN
    IF tz.index + 1 + n < Len(text)
    THEN [tz EXCEPT !.index = @ + 2 + n, !.line = @ + 1, !.column = 1]
    ELSE TzSkip(tz, 1 + n)

OldPunctuationKind(c) ==
    CASE c = "(" -> "LeftParenthesis"
      [] c = ")" -> "RightParenthesis"
      [] c = "{" -> "LeftBrace"
      [] c = "}" -> "RightBrace"
      [] c = "[" -> "LeftBracket"
      [] c = "]" -> "RightBracket"
      [] c = "," -> "Comma"
      [] c = "." -> "Dot"
      [] c = ":" -> "Colon"
      [] c = "^" -> "BitwiseXor"
      [] c = "~" -> "BitwiseNot"
      [] OTHER -> ""

RECURSIVE next_token(_, _)
next_token(text, tz) ==
    LET c == TzCurrent(text, tz) IN
    CASE c = NoChar -> TOk(tz, OldToken("Eof", <<>>, construct_span(tz, 0)))
      [] c \in {" ", "\t", "\r"} -> next_token(text, TzSkip(tz, 1))
      [] c = "\n" -> next_token_linefeed(text, tz)
      [] c \in IdentStart -> next_token_identifier(text, tz)
      [] c \in Digit -> next_token_number(text, tz)
      [] c = "\"" -> next_token_string(text, tz)
      [] OldPunctuationKind(c) # "" -> single_token(tz, OldPunctuationKind(c))
      [] c = ";" -> TErr(tz, "semicolon isn't used as a statement terminator", "",
                         construct_span(tz, 1))
      [] c = "+" -> double_token(text, tz, "+", "Plus", "=", "PlusEquals")
      [] c = "-" ->
            IF CharAt(text, tz.index + 2) = ">"
            THEN double_token(text, TzSkip(tz, 1), "-", "ThinArrow", ">", "ThinArrow")
            ELSE double_token(text, tz, "-", "Minus", "=", "MinusEquals")
      [] c = "*" -> double_token(text, tz, "*", "Asterisk", "=", "AsteriskEquals")
      [] c = "/" ->
            IF CharAt(text, tz.index + 2) = "/"
            THEN next_token(text, SkipComment(text, tz))
            ELSE double_token(text, tz, "/", "Slash", "=", "SlashEquals")
      [] c = "%" -> double_token(text, tz, "%", "Percent", "=", "PercentEquals")
      [] c = "=" -> double_token(text, tz, "=", "Equals", "=", "EqualsEquals")
      [] c = "!" -> double_token(text, tz, "!", "Bang", "=", "BangEquals")
      [] c = "<" -> double_token(text, tz, "<", "LessThan", "=", "LessThanEquals")
      [] c = ">" -> double_token(text, tz, ">", "GreaterThan", "=", "GreaterThanEquals")
      [] c = "&" -> double_token(text, tz, "&", "BitwiseAnd", "&", "And")
      [] c = "|" -> double_token(text, tz, "|", "BitwiseOr", "|", "Or")
      [] OTHER -> TErr(tz, "illegal character", c, construct_span(tz, 1))

\* the locals of Tokenizer::tokenize with the tokenizer itself: outcome is
\* "running" until tokenize has returned ("ok", "err") or panicked ("panic")
OldLexInit == [tz |-> TokenizerNew, tokens |-> <<>>, outcome |-> "running",
               error |-> NoError]

\* one iteration of the loop of Tokenizer::tokenize
tokenize_iteration(text, T) ==
    LET r == next_token(text, T.tz) IN
    CASE r.t = "ok" ->
            [T EXCEPT !.tz = r.tz, !.tokens = Append(@, r.token),
                      !.outcome = IF r.token.kind = "Eof" THEN "ok" ELSE "running"]
      [] r.t = "err" -> [T EXCEPT !.tz = r.tz, !.outcome = "err", !.error = r.error]
      [] OTHER -> [T EXCEPT !.tz = r.tz, !.outcome = "panic", !.error = r.error]

\* what Tokenizer::tokenize hands back: Ok(tokens), Err(error), or a panic
tokenize_return(T) ==
    [t |-> T.outcome, value |-> IF T.outcome = "ok" THEN T.tokens ELSE <<>>,
     error |-> T.error]

RECURSIVE old_tokenize_loop(_, _)
old_tokenize_loop(text, T) ==
    IF T.outcome # "running" THEN T ELSE old_tokenize_loop(text, tokenize_iteration(text, T))

(***************************************************************************)
(* main (src/main.rs): the source texts it is run on                       *)
(***************************************************************************)
\* fn add(a: int, b: int) -> int { return a + b; }
SrcAdd ==
    <<"f", "n", " ", "a", "d", "d", "(", "a", ":", " ", "i", "n", "t", ",", " ", "b", ":",
      " ", "i", "n", "t", ")", " ", "-", ">", " ", "i", "n", "t", " ", "{", " ", "r", "e",
      "t", "u", "r", "n", " ", "a", " ", "+", " ", "b", ";", " ", "}", " ">>

\* var p = 1;
SrcVar ==
    <<"v", "a", "r", " ", "p", " ", "=", " ", "1", ";", " ">>

\* p.x;
SrcMember ==
    <<"p", ".", "x", ";", " ">>

\* q.x;
SrcUndefinedMember ==
    <<"q", ".", "x", ";", " ">>

\* z;
SrcUndefined ==
    <<"z", ";", " ">>

\* struct Point { x: int, y: int }
SrcStruct ==
    <<"s", "t", "r", "u", "c", "t", " ", "P", "o", "i", "n", "t", " ", "{", " ", "x", ":",
      " ", "i", "n", "t", ",", " ", "y", ":", " ", "i", "n", "t", " ", "}", " ">>

\* struct E { }
SrcEmptyStruct ==
    <<"s", "t", "r", "u", "c", "t", " ", "E", " ", "{", " ", "}", " ">>

\* @
SrcIllegal ==
    <<"@", " ">>

\* var 1;
SrcBadVar ==
    <<"v", "a", "r", " ", "1", ";", " ">>

\* { fn g() { } }
SrcNested ==
    <<"{", " ", "f", "n", " ", "g", "(", ")", " ", "{", " ", "}", " ", "}", " ">>

\* {
SrcOpenBrace ==
    <<"{", " ">>

\* import io;
SrcImport ==
    <<"i", "m", "p", "o", "r", "t", " ", "i", "o", ";", " ">>

\* return p;
SrcReturn ==
    <<"r", "e", "t", "u", "r", "n", " ", "p", ";", " ">>

\* ''
SrcEmptyChar ==
    <<"'", "'", " ">>

Snippets == <<SrcAdd, SrcVar, SrcMember, SrcUndefinedMember, SrcUndefined, SrcStruct, SrcEmptyStruct,
              SrcIllegal, SrcBadVar, SrcNested, SrcOpenBrace, SrcImport, SrcReturn, SrcEmptyChar>>

\* a source text has at most MaxStmts snippets
MaxStmts == 2

RECURSIVE ConcatAll(_)
ConcatAll(indices) ==
    IF indices = <<>> THEN <<>> ELSE Snippets[Head(indices)] \o ConcatAll(Tail(indices))

Sources ==
    {ConcatAll(indices) : indices \in UNION {[1..n -> 1..Len(Snippets)] : n \in 0..MaxStmts}}

\* only_filename: the last component of the path given on the command line
only_filename == "test"

PendingAst == [ok |-> FALSE, value |-> <<>>, error |-> <<>>]
PendingOutput == [t |-> "pending", st |-> CodegenStateNew, value |-> <<>>, error |-> NoError]
NoFiles == [name \in {} |-> <<>>]

\* the stage that is entered is recorded once
Enter(stage) == IF ran # <<>> /\ ran[Len(ran)] = stage THEN ran ELSE Append(ran, stage)

\* match tokens { Ok(tokens) => the parser runs, Err(error) => println and return }
AfterTokenize(result) == IF result.ok THEN "parse" ELSE "done"
\* a main that goes on to get_symbols whatever parse returned
AfterParseAlways(result) == "get_symbols"

\* match ast { Ok(ast) => get_symbols and codegen run, Err(error) => println each }
AfterParse(result) == IF result.ok THEN "get_symbols" ELSE "done"
\* match result { Ok((cpp, hpp)) => the files are written, Err(error) => println }
AfterCodegen(result) ==
    CASE result.t = "ok" -> "write" [] result.t = "err" -> "done" [] OTHER -> "panic"

Init ==
    /\ pc = "tokenize"
    /\ contents \in Sources
    /\ lex = OldLexInit
    /\ tokens = Pending
    /\ parser = ParserInit
    /\ ast = PendingAst
    /\ state = CodegenStateNew
    /\ state0 = CodegenStateNew
    /\ output = PendingOutput
    /\ files = NoFiles
    /\ printed = <<>>
    /\ ran = <<>>

\* let tokens = tokenize(filename, contents.chars()); match tokens
Tokenize ==
    /\ pc = "tokenize"
    /\ tokens' = tokenize(contents)
    /\ ran' = Enter("tokenize")
    /\ pc' = AfterTokenize(tokens')
    /\ parser' = ParserInit
    /\ printed' = IF tokens'.ok THEN printed ELSE Append(printed, tokens'.error)
    /\ UNCHANGED <<contents, lex, ast, state, state0, output, files>>

\* one iteration of the loop of parser.parse()
ParseStatement ==
    /\ pc = "parse"
    /\ ~is_at_end(tokens.value, parser.index)
    /\ parser' = parse_iteration(tokens.value, parser)
    /\ ran' = Enter("parse")
    /\ pc' = IF parser'.panicked THEN "panic" ELSE "parse"
    /\ UNCHANGED <<contents, lex, tokens, ast, state, state0, output, files, printed>>

\* the loop of parser.parse() is over: it returns, and main matches on ast
ParseReturn ==
    /\ pc = "parse"
    /\ is_at_end(tokens.value, parser.index)
    /\ ast' = parse_result(parser)
    /\ ran' = Enter("parse")
    /\ pc' = AfterParse(ast')
    /\ printed' = IF ast'.ok THEN printed ELSE printed \o ast'.error
    /\ UNCHANGED <<contents, lex, tokens, parser, state, state0, output, files>>

\* let state = &mut CodegenState::new(); get_symbols(state, &ast)
GetSymbols ==
    /\ pc = "get_symbols"
    /\ state' = get_symbols(CodegenStateNew, ast.value)
    /\ state0' = state'
    /\ ran' = Enter("get_symbols")
    /\ pc' = "codegen"
    /\ UNCHANGED <<contents, lex, tokens, parser, ast, output, files, printed>>

\* let result = codegen(state, &only_filename, ast); match result
Codegen ==
    /\ pc = "codegen"
    /\ output' = codegen(state, only_filename, ast.value)
    /\ state' = output'.st
    /\ ran' = Enter("codegen")
    /\ pc' = AfterCodegen(output')
    /\ printed' = IF output'.t = "err" THEN Append(printed, output'.error) ELSE printed
    /\ UNCHANGED <<contents, lex, tokens, parser, ast, state0, files>>

\* std::fs::write of the .cpp and of the .hpp file
WriteFiles ==
    /\ pc = "write"
    /\ files' = [name \in {"cpp", "hpp"} |->
                    [text |-> IF name = "cpp" THEN output.value[1] ELSE output.value[2],
                     formatted |-> FALSE]]
    /\ ran' = Enter("write")
    /\ pc' = "format"
    /\ UNCHANGED <<contents, lex, tokens, parser, ast, state, state0, output, printed>>

\* both files are written again with what clang_format returns: the formatted
\* text, or the empty string when clang-format is missing or fails
ClangFormat ==
    /\ pc = "format"
    /\ \E cpp_ok \in BOOLEAN, hpp_ok \in BOOLEAN :
          files' = [name \in {"cpp", "hpp"} |->
                       IF (name = "cpp" /\ cpp_ok) \/ (name = "hpp" /\ hpp_ok)
                       THEN [files[name] EXCEPT !.formatted = TRUE]
                       ELSE [text |-> <<>>, formatted |-> FALSE]]
    /\ pc' = "compile"
    /\ UNCHANGED <<contents, lex, tokens, parser, ast, state, state0, output, printed, ran>>

\* clang++ is run on the .cpp file and, when that succeeds, the .exe is run;
\* what they print depends on the host
Compile ==
    /\ pc = "compile"
    /\ \E message \in {"Compiled successfully!", "Failed to compile!", "io error"} :
          printed' = Append(printed, Error(message, "", NoSpan))
    /\ pc' = "done"
    /\ UNCHANGED <<contents, lex, tokens, parser, ast, state, state0, output, files, ran>>

Next ==
    \/ Tokenize
    \/ ParseStatement
    \/ ParseReturn
    \/ GetSymbols
    \/ Codegen
    \/ WriteFiles
    \/ ClangFormat
    \/ Compile

Spec == Init /\ [][Next]_vars

(***************************************************************************)
(* Properties of the pipeline                                              *)
(***************************************************************************)
\* the generated text holds the fragments of pattern, adjacent and in order
ContainsSeq(text, pattern) ==
    \E i \in 0..(Len(text) - Len(pattern)) : SubSeq(text, i + 1, i + Len(pattern)) = pattern

Range(sequence) == {sequence[i] : i \in 1..Len(sequence)}

\* the token sequence is non-empty, ends with Eof, and has no earlier Eof
EndsWithOnlyEof(sequence) ==
    /\ sequence # <<>>
    /\ sequence[Len(sequence)].kind = "Eof"
    /\ \A i \in 1..(Len(sequence) - 1) : sequence[i].kind # "Eof"

\* the expression, spans aside, is the sum lhs + rhs of two identifiers
IsSumOf(expression, lhs, rhs) ==
    /\ expression.k = "Binary"
    /\ expression.operator = "Plus"
    /\ expression.lhs.k = "Identifier" /\ expression.lhs.v[1] = lhs
    /\ expression.rhs.k = "Identifier" /\ expression.rhs.v[1] = rhs

\* the statement is a block whose only statement returns lhs + rhs
IsBlockReturningSum(body, lhs, rhs) ==
    /\ body.k = "Block"
    /\ Len(body.statements) = 1
    /\ body.statements[1].k = "Return"
    /\ body.statements[1].expression.k = "Some"
    /\ IsSumOf(body.statements[1].expression.v, lhs, rhs)

AddPrototype == <<"int", " ", "add", "(", "int", " ", "a", ", ", "int", " ", "b", ");\n">>
AddHeader == <<"int", " ", "add", "(", "int", " ", "a", ", ", "int", " ", "b", ") {\n">>

\* the text defines add with a body of one block holding one return statement
\* whose value names a, then the operator +, then b
DefinesAddReturningSum(cpp) ==
    \E operator \in {<<"+">>, <<" + ">>, <<" ", "+", " ">>} :
        ContainsSeq(cpp, AddHeader \o <<"{\n", "return ", "a">> \o operator
                                   \o <<"b", ";\n", "}\n", "}\n">>)

\* C1: the pipeline of main, run on
\* `fn add(a: int, b: int) -> int { return a + b; }`, yields a declaration unit
\* with the prototype `int add(int a, int b);` and an implementation unit that
\* defines add with a body of one block whose only statement returns a + b.
C1_AddPipeline ==
    (contents = SrcAdd /\ output.t # "pending") =>
        /\ output.t = "ok"
        /\ ContainsSeq(output.value[2], AddPrototype)
        /\ IsBlockReturningSum(ast.value[1].body, "a", "b")
        /\ DefinesAddReturningSum(output.value[1])

\* the part of C1 the code meets: the prototype is in the declaration unit
C1_AddPrototypeEmitted ==
    (contents = SrcAdd /\ output.t # "pending") =>
        (output.t = "ok" /\ ContainsSeq(output.value[2], AddPrototype))

\* the pipeline has generated code for the add source
C1_AddGenerated == contents = SrcAdd /\ output.t = "ok" /\ pc = "done"

\* what the iteration of Parser::parse at the current cursor does: an Ok
\* statement is pushed and no error is; a failure at cursor i pushes its one
\* error after the earlier ones, no statement, and leaves the cursor at resume(i)
ParseStepRecords(resume(_)) ==
    (pc = "parse" /\ parser' # parser) =>
        LET attempt == parse_statement(tokens.value, parser.index) IN
        /\ attempt.t = "ok" =>
              /\ parser'.errors = parser.errors
              /\ parser'.statements = Append(parser.statements, attempt.node)
        /\ attempt.t = "err" =>
              /\ parser'.errors = Append(parser.errors, attempt.error)
              /\ parser'.statements = parser.statements
              /\ parser'.index = resume(attempt.i)

\* parse returns only with the cursor at the end: Ok(statements) if and only if
\* no error was pushed, else Err(errors)
ParseReturns ==
    (pc = "parse" /\ pc' \notin {"parse", "panic"}) =>
        /\ is_at_end(tokens.value, parser.index)
        /\ ast'.ok <=> parser.errors = <<>>
        /\ ast'.ok => ast'.value = parser.statements
        /\ ~ast'.ok => ast'.error = parser.errors

NextToken(i) == i + 1
NextTokenOrEnd(i) == IF i + 1 <= Len(tokens.value) THEN i + 1 ELSE Len(tokens.value)

C4_FailedAtEnd ==
    /\ pc = "done" /\ ~ast.ok /\ Len(ast.error) >= 1
    /\ ast.error[Len(ast.error)].message = "unexpected end of file"


StageOrder == <<"tokenize", "parse", "get_symbols", "codegen", "write">>

IsPrefix(short, long) == Len(short) <= Len(long) /\ short = SubSeq(long, 1, Len(short))

\* C10: in main the stages run strictly in order and each error
\* short-circuits the rest: the parser runs only after tokenization returned
\* Ok, get_symbols and codegen only after parse returned Ok, the two output
\* files are written only after codegen returned Ok; when tokenization,
\* parsing or code generation fails, no file is written and no later stage runs.
C10_StagesShortCircuit ==
    /\ IsPrefix(ran, StageOrder)
    /\ "parse" \in Range(ran) => tokens.ok
    /\ "get_symbols" \in Range(ran) => tokens.ok /\ ast.ok
    /\ "codegen" \in Range(ran) => tokens.ok /\ ast.ok
    /\ ("write" \in Range(ran) \/ DOMAIN files # {}) =>
          tokens.ok /\ ast.ok /\ output.t = "ok"
    /\ (ran # <<>> /\ ~tokens.ok) =>
          ran = <<"tokenize">> /\ DOMAIN files = {} /\ pc = "done"
    /\ (~ast.ok /\ ast.error # <<>>) =>
          ran = <<"tokenize", "parse">> /\ DOMAIN files = {} /\ pc = "done"
    /\ output.t \in {"err", "panic"} =>
          ran = <<"tokenize", "parse", "get_symbols", "codegen">> /\ DOMAIN files = {}

\* code generation has failed in main: the run is over and no file exists
C10_CodegenFailed ==
    /\ pc = "done"
    /\ output.t = "err"
    /\ DOMAIN files = {}
    /\ Len(printed) = 1


(***************************************************************************)
(* get_symbols and codegen on syntax trees.  codegen takes any             *)
(* Vec<Statement>: the trees here include the statements Parser::parse     *)
(* never builds (Enum, Union).                                             *)
(***************************************************************************)
\* an identifier of a tree, with a span of its own
Id(name, column) == spanned(name, Span(1, column, column + 1))

\* S.m; for each base S
MemberOf(base, column) ==
    ExpressionStatement(Member(Identifier(Id(base, column)), Id("m", column + 2)))

\* a struct of the first n of three fields
MaxFields == 2
StructFields ==
    <<<<Id("x", 20), TypeInteger>>, <<Id("y", 30), TypeFloatingPoint>>,
      <<Id("z", 40), TypeBoolean>>, <<Id("w", 50), TypeCharacter>>>>
StructOf(n) == Struct(Id("S", 10), <<>>, SubSeq(StructFields, 1, n))

EmptyFunction(name) == Function(Id(name, 5), <<>>, None, Block(<<>>))

Declarations ==
    {Enum(Id("E", 5), <<>>, None, <<<<Id("A", 8), None>>>>),
     Variable(Id("v", 5), None, IntegerLit(spanned(1, Span(1, 9, 10)))),
     Constant(Id("c", 7), Some(TypeInteger), IntegerLit(spanned(2, Span(1, 9, 10)))),
     Union(Id("U", 5), <<>>, FALSE, <<<<Some(Id("i", 8)), TypeInteger>>>>),
     Union(Id("T", 5), <<>>, TRUE, <<<<None, TypeInteger>>>>),
     Import(Id("io", 8)),
     Struct(Id("G", 10), <<Id("K", 12)>>, <<<<Id("x", 20), TypeIdentifier(Id("K", 23))>>>>),
     EmptyFunction("f")}
    \cup {StructOf(n) : n \in 0..MaxFields}

Executables ==
    {MemberOf("E", 1), MemberOf("v", 1), MemberOf("f", 1), MemberOf("u", 1),
     ExpressionStatement(Identifier(Id("u", 1))),
     ExpressionStatement(Call(Identifier(Id("u", 1)), <<>>)),
     ExpressionStatement(Call(Identifier(Id("f", 1)), <<Identifier(Id("u", 3))>>)),
     Variable(Id("w", 5), None, Identifier(Id("u", 9))),
     Return(Some(Identifier(Id("u", 8)))),
     Return(None),
     For(Id("i", 6), Identifier(Id("v", 11)), Block(<<>>)),
     Block(<<EmptyFunction("g")>>),
     Block(<<Import(Id("io", 8))>>),
     Block(<<StructOf(0)>>),
     Block(<<MemberOf("E", 3)>>),
     Function(Id("h", 5), <<>>, None, Block(<<EmptyFunction("g")>>)),
     Garbage}

\* a tree has at most MaxAst top-level statements
MaxAst == 2

Asts ==
    UNION {[1..n -> Declarations \cup Executables] : n \in 0..MaxAst}

InitCodegen ==
    /\ pc = "get_symbols"
    /\ contents = <<>>
    /\ lex = OldLexInit
    /\ tokens = Pending
    /\ parser = ParserInit
    /\ ast \in {[ok |-> TRUE, value |-> statements, error |-> <<>>] : statements \in Asts}
    /\ state = CodegenStateNew
    /\ state0 = CodegenStateNew
    /\ output = PendingOutput
    /\ files = NoFiles
    /\ printed = <<>>
    /\ ran = <<>>

NextCodegen ==
    \/ GetSymbols
    \/ Codegen

SpecCodegen == InitCodegen /\ [][NextCodegen]_vars

(***************************************************************************)
(* Properties of get_symbols and codegen                                   *)
(***************************************************************************)
\* the SymbolType the table holds for a name
SymbolTypeOf(st, name) == st.symbols[st.symbol_table[name] + 1][2]

\* the statement is `base.member;` with an identifier as its base
IsMemberOfIdentifier(statement) ==
    /\ statement.k = "Expression"
    /\ statement.expression.k = "Member"
    /\ statement.expression.expression.k = "Identifier"

BaseOf(statement) == statement.expression.expression.v[1]

\* C2: codegen_expression lowers a Member expression whose base is an
\* Identifier of an Enum symbol as base::member, and one whose base is an
\* Identifier of a Variable symbol as base.member.
C2_MemberSeparator ==
    \A i \in 1..Len(ast.value) :
        LET statement == ast.value[i]
            lowered == codegen_expression(state0, statement.expression)
        IN  (/\ pc # "get_symbols"
             /\ IsMemberOfIdentifier(statement)
             /\ BaseOf(statement) \in DOMAIN state0.symbol_table) =>
                /\ SymbolTypeOf(state0, BaseOf(statement)) = "Enum" =>
                      /\ lowered.t = "ok"
                      /\ lowered.value = <<BaseOf(statement), "::", statement.expression.member[1]>>
                      /\ output.t = "ok" => ContainsSeq(output.value[1], lowered.value)
                /\ SymbolTypeOf(state0, BaseOf(statement)) = "Variable" =>
                      /\ lowered.t = "ok"
                      /\ lowered.value = <<BaseOf(statement), ".", statement.expression.member[1]>>
                      /\ output.t = "ok" => ContainsSeq(output.value[1], lowered.value)

\* codegen has lowered the statement E.m; of a tree that declares the enum E
C2_EnumMemberLowered ==
    /\ output.t = "ok"
    /\ \E i \in 1..Len(ast.value) :
          /\ IsMemberOfIdentifier(ast.value[i])
          /\ BaseOf(ast.value[i]) \in DOMAIN state0.symbol_table
          /\ SymbolTypeOf(state0, BaseOf(ast.value[i])) = "Enum"
    /\ ContainsSeq(output.value[1], <<"E", "::", "m", ";\n">>)

RECURSIVE IdentifiersOfExpression(_), IdentifiersOfExpressions(_),
          IdentifiersOfStatement(_), IdentifiersOfStatements(_)

\* the spanned names of the Identifier expressions inside an expression
IdentifiersOfExpression(expression) ==
    CASE expression.k = "Identifier" -> {expression.v}
      [] expression.k = "Binary" ->
            IdentifiersOfExpression(expression.lhs) \cup IdentifiersOfExpression(expression.rhs)
      [] expression.k = "Unary" -> IdentifiersOfExpression(expression.expression)
      [] expression.k = "Call" ->
            IdentifiersOfExpression(expression.expression)
            \cup IdentifiersOfExpressions(expression.arguments)
      [] expression.k = "Index" ->
            IdentifiersOfExpression(expression.expression)
            \cup IdentifiersOfExpression(expression.index)
      [] expression.k = "Member" -> IdentifiersOfExpression(expression.expression)
      [] expression.k = "Assignment" ->
            IdentifiersOfExpression(expression.lhs) \cup IdentifiersOfExpression(expression.value)
      [] expression.k = "ArrayLiteral" -> IdentifiersOfExpressions(expression.expressions)
      [] OTHER -> {}

IdentifiersOfExpressions(expressions) ==
    UNION {IdentifiersOfExpression(expressions[i]) : i \in 1..Len(expressions)}

\* the spanned names of the Identifier expressions inside a statement
IdentifiersOfStatement(statement) ==
    CASE statement.k = "Block" -> IdentifiersOfStatements(statement.statements)
      [] statement.k = "Function" -> IdentifiersOfStatement(statement.body)
      [] statement.k \in {"Variable", "Constant", "Expression"} ->
            IdentifiersOfExpression(statement.expression)
      [] statement.k = "For" ->
            IdentifiersOfExpression(statement.expression)
            \cup IdentifiersOfStatement(statement.body)
      [] statement.k = "Return" ->
            IF statement.expression.k = "Some"
            THEN IdentifiersOfExpression(statement.expression.v) ELSE {}
      [] OTHER -> {}

IdentifiersOfStatements(statements) ==
    UNION {IdentifiersOfStatement(statements[i]) : i \in 1..Len(statements)}

\* the Identifier expressions of the tree whose name the symbol table lacks
UndefinedIdentifiers ==
    {id \in IdentifiersOfStatements(ast.value) : id[1] \notin DOMAIN state0.symbol_table}

\* C3: when some expression of the tree, in any position, is an Identifier
\* whose name is absent from the symbol table, codegen returns Err with an
\* 'undefined symbol' error carrying that identifier's own span, and no text.
C3_UndefinedSymbol ==
    (output.t # "pending" /\ UndefinedIdentifiers # {}) =>
        /\ output.t = "err"
        /\ output.error.message = "undefined symbol"
        /\ \E id \in UndefinedIdentifiers :
              output.error.arg = id[1] /\ output.error.span = id[2]
        /\ output.value = <<>>

\* codegen has returned Ok for a tree that names an undefined identifier
C3_UndefinedAccepted == output.t = "ok" /\ UndefinedIdentifiers # {}

RECURSIVE StatementsOf(_), StatementsIn(_)

\* the statement and every statement nested in it, at any depth
StatementsOf(statement) ==
    {statement} \cup
    CASE statement.k = "Block" -> StatementsIn(statement.statements)
      [] statement.k \in {"Function", "For"} -> StatementsOf(statement.body)
      [] OTHER -> {}

StatementsIn(statements) == UNION {StatementsOf(statements[i]) : i \in 1..Len(statements)}

\* the routing of one statement's own text into the two units of the output
RoutedAsSpecified(statement) ==
    LET own == codegen_statement(state0, statement)
        cpp == output.value[1]
        hpp == output.value[2]
    IN  own.t = "ok" =>
            CASE statement.k \in {"Import", "Struct", "Enum", "Union"} ->
                    own.value[1] = <<>> /\ own.value[2] # <<>> /\ ContainsSeq(hpp, own.value[2])
              [] statement.k \in {"Return", "For", "Expression", "Block"} ->
                    own.value[2] = <<>> /\ own.value[1] # <<>> /\ ContainsSeq(cpp, own.value[1])
              [] statement.k = "Function" ->
                    /\ own.value[2] # <<>> /\ ContainsSeq(hpp, own.value[2])
                    /\ own.value[1] # <<>> /\ ContainsSeq(cpp, own.value[1])
              [] OTHER -> TRUE

\* C7: for every statement of the tree at any nesting depth, each declaration
\* (Import, Struct, Enum, Union) adds text only to the declaration unit, each
\* executable statement (Return, For, Expression, Block) only to the
\* implementation unit, and every Function, top-level or nested, adds its
\* prototype to the declaration unit and its definition to the implementation
\* unit.
C7_RoutingAtAnyDepth ==
    output.t = "ok" => \A statement \in StatementsIn(ast.value) : RoutedAsSpecified(statement)

\* the routing the code performs: the claim restricted to top-level statements
C7_RoutingAtTopLevel ==
    output.t = "ok" => \A i \in 1..Len(ast.value) : RoutedAsSpecified(ast.value[i])

\* codegen has returned Ok for a tree with a function nested in a block
C7_NestedFunctionGenerated ==
    /\ output.t = "ok"
    /\ \E i \in 1..Len(ast.value) :
          /\ ast.value[i].k = "Block"
          /\ \E j \in 1..Len(ast.value[i].statements) :
                ast.value[i].statements[j].k = "Function"


\* the fragments of text at the positions J, in the order of the positions
FragmentsAt(text, J) ==
    [k \in 1..Cardinality(J) |->
        text[CHOOSE j \in J : Cardinality({m \in J : m <= j}) = k]]

Fragment(text, j) == IF j \in 1..Len(text) THEN text[j] ELSE ""

\* the names the aggregate declares: `type name;` lines
DeclaredFields(hpp) ==
    FragmentsAt(hpp, {j \in 1..Len(hpp) :
                        Fragment(hpp, j - 1) = " " /\ Fragment(hpp, j + 1) = ";\n"})

\* the names of the constructor's parameters: `type name` before `, ` or `) `
ConstructorParameters(hpp) ==
    FragmentsAt(hpp, {j \in 1..Len(hpp) :
                        Fragment(hpp, j - 1) = " " /\ Fragment(hpp, j + 1) \in {", ", ") "}})

\* the members the constructor initializes, and from what: `member(value)`
InitializedMembers(hpp) ==
    FragmentsAt(hpp, {j \in 1..Len(hpp) :
                        Fragment(hpp, j + 1) = "(" /\ Fragment(hpp, j + 3) = ")"})
InitializerValues(hpp) ==
    FragmentsAt(hpp, {j \in 1..Len(hpp) :
                        Fragment(hpp, j - 1) = "(" /\ Fragment(hpp, j + 1) = ")"})

\* what the format method writes: ` << "name = " << value`
FormattedNames(hpp) ==
    FragmentsAt(hpp, {j \in 1..Len(hpp) :
                        Fragment(hpp, j - 1) = " << \"" /\ Fragment(hpp, j + 1) = " = \" << "})
FormattedValues(hpp) ==
    FragmentsAt(hpp, {j \in 1..Len(hpp) :
                        Fragment(hpp, j - 3) = " << \"" /\ Fragment(hpp, j - 1) = " = \" << "})

FieldNames(statement) == [i \in 1..Len(statement.fields) |-> statement.fields[i][1][1]]

\* where the text of the format method starts
FormatStart(hpp) == CHOOSE j \in 1..Len(hpp) : hpp[j] = "std::string format() const {\n"

StructLoweredAsSpecified(statement) ==
    LET own == codegen_statement(state0, statement)
        hpp == own.value[2]
        name == statement.spanned_id[1]
    IN  /\ own.t = "ok"
        /\ own.value[1] = <<>>
        /\ ContainsSeq(hpp, <<"struct ", name>>)
        /\ DeclaredFields(hpp) = FieldNames(statement)
        /\ ConstructorParameters(hpp) = FieldNames(statement)
        /\ InitializedMembers(hpp) = FieldNames(statement)
        /\ InitializerValues(hpp) = FieldNames(statement)
        /\ ContainsSeq(hpp, <<"    ~", name, "() = default;\n">>)
        /\ ContainsSeq(hpp, <<"std::string format() const {\n", "    std::stringstream ss;\n",
                              "    ss << \"", name, "{\"">>)
        /\ FormattedNames(hpp) = FieldNames(statement)
        /\ FormattedValues(hpp) = FieldNames(statement)
        /\ \A j \in 1..Len(hpp) :
              Fragment(hpp, j - 1) = " << \"" /\ Fragment(hpp, j + 1) = " = \" << "
              => j > FormatStart(hpp) + 4

\* C8: for a Struct with fields f1..fn (n >= 0), codegen_statement emits to
\* the declaration unit an aggregate with exactly n fields in declared order,
\* a constructor of exactly n parameters in declared order that initializes
\* member fi from parameter fi, a defaulted destructor, and a format method
\* that writes the struct name and then each field's name and value in
\* declared order; it emits nothing to the implementation unit.
C8_StructLowering ==
    pc # "get_symbols" =>
        /\ \A statement \in StatementsIn(ast.value) :
              statement.k = "Struct" => StructLoweredAsSpecified(statement)
        /\ \A i \in 1..Len(ast.value) :
              (ast.value[i].k = "Struct" /\ output.t = "ok") =>
                 ContainsSeq(output.value[2], codegen_statement(state0, ast.value[i]).value[2])

\* codegen has lowered a struct of two fields x, y
C8_TwoFieldStructLowered ==
    /\ output.t = "ok"
    /\ \E i \in 1..Len(ast.value) :
          ast.value[i].k = "Struct" /\ Len(ast.value[i].fields) = 2
    /\ ContainsSeq(output.value[2], <<": ", "x", "(", "x", ")", ", ", "y", "(", "y", ")", " {}\n">>)


\* C9: codegen and every function it calls leave CodegenState unchanged:
\* after codegen returns, with Ok or with Err, symbol_table and symbols are
\* equal to their values when codegen was called.
C9_StateUnchanged ==
    output.t \in {"ok", "err"} =>
        /\ state.symbol_table = state0.symbol_table
        /\ state.symbols = state0.symbols
        /\ output.st = state0

\* codegen has returned Err from the type check of a member base, after
\* get_symbols recorded a symbol
C9_ErrAfterLookup ==
    /\ output.t = "err"
    /\ output.error.message = "undefined symbol"
    /\ state0.symbols # <<>>
    /\ state = state0


(***************************************************************************)
(* The two tokenizers on every short text                                  *)
(***************************************************************************)
\* the texts have at most MaxLen characters of Alphabet
MaxLen == 3
Alphabet == {"a", "1", " ", "\n", "+", "-", ">", "=", "\"", "\\", "@", ";"}

Texts == UNION {[1..n -> Alphabet] : n \in 0..MaxLen}

\* the text is given to tokenize by main, or to Tokenizer by Compiler::compile
InitLex ==
    /\ pc \in {"tokenize", "Tokenizer"}
    /\ contents \in Texts
    /\ lex = OldLexInit
    /\ tokens = Pending
    /\ parser = ParserInit
    /\ ast = PendingAst
    /\ state = CodegenStateNew
    /\ state0 = CodegenStateNew
    /\ output = PendingOutput
    /\ files = NoFiles
    /\ printed = <<>>
    /\ ran = <<>>

\* Tokenizer::new(filename, contents).tokenize() in Compiler::compile
TokenizerTokenize ==
    /\ pc = "Tokenizer"
    /\ lex' = old_tokenize_loop(contents, OldLexInit)
    /\ ran' = Enter("Tokenizer")
    /\ pc' = CASE lex'.outcome = "ok" -> "Parser"
               [] lex'.outcome = "err" -> "done"
               [] OTHER -> "panic"
    /\ UNCHANGED <<contents, tokens, parser, ast, state, state0, output, files, printed>>

NextLex ==
    \/ Tokenize
    \/ TokenizerTokenize

SpecLex == InitLex /\ [][NextLex]_vars

\* C5: on every finite text, Tokenizer::tokenize and tokenize each end with
\* Ok(the token sequence) or Err(the first lexical error, no tokens); no panic
\* is reachable, including when the text ends right after an operator character.
C5_OkOrErr ==
    /\ "Tokenizer" \in Range(ran) =>
          /\ tokenize_return(lex).t \in {"ok", "err"}
          /\ tokenize_return(lex).t = "err" =>
                tokenize_return(lex).value = <<>> /\ tokenize_return(lex).error # NoError
    /\ "tokenize" \in Range(ran) =>
          /\ tokens.ok => tokens.error = NoError
          /\ ~tokens.ok => tokens.value = <<>> /\ tokens.error # NoError

\* Tokenizer::tokenize has panicked on a text that ends with an operator
C5_PanicAfterOperator ==
    /\ pc = "panic"
    /\ contents # <<>>
    /\ contents[Len(contents)] \in {"+", "-", "=", ">"}
    /\ lex.error.arg = "unwrap on None"

\* the part of C5 that tokenize of src/tokenizer/tokenizer.rs meets
C5_MainTokenizeOkOrErr ==
    "tokenize" \in Range(ran) =>
        /\ tokens.ok => tokens.error = NoError
        /\ ~tokens.ok => tokens.value = <<>> /\ tokens.error # NoError

\* C6: when tokenization succeeds, in Tokenizer::tokenize and in tokenize, the
\* returned sequence is non-empty, its last element has kind Eof, and no
\* earlier element has kind Eof.
C6_EofLastOnly ==
    /\ ("Tokenizer" \in Range(ran) /\ tokenize_return(lex).t = "ok") =>
          EndsWithOnlyEof(tokenize_return(lex).value)
    /\ ("tokenize" \in Range(ran) /\ tokens.ok) => EndsWithOnlyEof(tokens.value)

\* Tokenizer::tokenize has returned Ok with a token before the Eof
C6_TokenizerSucceeded ==
    /\ "Tokenizer" \in Range(ran)
    /\ tokenize_return(lex).t = "ok"
    /\ Len(tokenize_return(lex).value) >= 2

\* how a string literal whose body starts at position p ends, by the rules
\* of the language: a `"` closes it, a backslash takes the next character as
\* an escape, which must be one of n r t \ "; the input may end in the body
\* ("unterminated") or right after a backslash ("dangling")
RECURSIVE StringEnd(_, _)
StringEnd(text, p) ==
    CASE p > Len(text) -> "unterminated"
      [] text[p] = "\"" -> "closed"
      [] text[p] = "\\" ->
            IF p + 1 > Len(text) THEN "dangling"
            ELSE IF text[p + 1] \in {"n", "r", "t", "\\", "\""}
                 THEN StringEnd(text, p + 2)
                 ELSE "illegal escape"
      [] OTHER -> StringEnd(text, p + 1)

\* position p holds the `"` that opens the first string literal of the text:
\* only identifier characters and blanks come before it
OpensString(text, p) ==
    /\ p \in 1..Len(text)
    /\ text[p] = "\""
    /\ \A q \in 1..(p - 1) : text[q] \in {"a", " "}

\* Tokenizer::tokenize has returned Err with this message and no tokens
TokenizerFailsWith(message) ==
    /\ tokenize_return(lex).t = "err"
    /\ tokenize_return(lex).error.message = message
    /\ tokenize_return(lex).value = <<>>

\* tokenize has returned Err with this message and no tokens
TokenizeFailsWith(message) ==
    /\ ~tokens.ok
    /\ tokens.error.message = message
    /\ tokens.value = <<>>

\* the error a text must fail with once it has been tokenized
StringMustFailWith(text, p, message) ==
    /\ "Tokenizer" \in Range(ran) => TokenizerFailsWith(message)
    /\ "tokenize" \in Range(ran) => TokenizeFailsWith(message)

\* C12: a string literal opened by `"` with the input ending before the
\* closing `"` fails with 'unexpected end of file' and no tokens; a backslash
\* in a string followed by a character other than n, r, t, backslash, `"` fails
\* with 'illegal escape sequence'; in Tokenizer::tokenize and in tokenize.
C12_StringErrors ==
    \A p \in 1..Len(contents) :
        OpensString(contents, p) =>
            /\ StringEnd(contents, p + 1) \in {"unterminated", "dangling"} =>
                  StringMustFailWith(contents, p, "unexpected end of file")
            /\ StringEnd(contents, p + 1) = "illegal escape" =>
                  StringMustFailWith(contents, p, "illegal escape sequence")

\* tokenize has returned Ok for a text whose string literal is never closed
C12_UnterminatedAccepted ==
    /\ "tokenize" \in Range(ran)
    /\ \E p \in 1..Len(contents) :
          OpensString(contents, p) /\ StringEnd(contents, p + 1) = "unterminated"
    /\ tokens.ok
    /\ \E j \in 1..Len(tokens.value) : tokens.value[j].kind = "String"

\* the part of C12 that Tokenizer::tokenize meets: both errors, except that a
\* backslash that is the last character of the input is reported as an
\* illegal escape sequence
C12_TokenizerStringErrors ==
    "Tokenizer" \in Range(ran) =>
        \A p \in 1..Len(contents) :
            OpensString(contents, p) =>
                /\ StringEnd(contents, p + 1) = "unterminated" =>
                      TokenizerFailsWith("unexpected end of file")
                /\ StringEnd(contents, p + 1) \in {"dangling", "illegal escape"} =>
                      TokenizerFailsWith("illegal escape sequence")

(***************************************************************************)
(* The parser on bounded token vectors.  Parser::new takes any Vec<Token>; *)
(* the vectors here end with the Eof token tokenize appends.               *)
(***************************************************************************)
\* names of the identifier tokens, by position
Letters == <<"a", "b", "c", "d", "e", "f", "g", "h", "i", "j">>

\* the text tokenize stores in Token.value for a kind
Lexeme(kind, name) ==
    CASE kind = "Identifier" -> <<name>>
      [] kind = "Plus" -> <<"+">>
      [] kind = "Minus" -> <<"-">>
      [] kind = "Asterisk" -> <<"*">>
      [] kind = "Slash" -> <<"/">>
      [] kind = "Bang" -> <<"!">>
      [] kind = "Ampersand" -> <<"&">>
      [] kind = "Mut" -> <<"m", "u", "t">>
      [] kind = "Equals" -> <<"=">>
      [] kind = "EqualsEquals" -> <<"=", "=">>
      [] kind = "BangEquals" -> <<"!", "=">>
      [] kind = "LessThan" -> <<"<">>
      [] kind = "GreaterThan" -> <<">">>
      [] kind = "Or" -> <<"o", "r">>
      [] kind = "And" -> <<"a", "n", "d">>
      [] kind = "OpenParenthesis" -> <<"(">>
      [] kind = "CloseParenthesis" -> <<")">>
      [] kind = "Semicolon" -> <<";">>
      [] OTHER -> <<>>

\* the j-th token of a line: one column wide, as tokenize spans one character
TokenAt(kind, name, j) == Token(kind, Lexeme(kind, name), Span(1, j, j))

\* the tokens of the given kinds followed by Eof
TokensOf(kinds) ==
    [j \in 1..(Len(kinds) + 1) |->
        IF j <= Len(kinds) THEN TokenAt(kinds[j], Letters[j], j)
        ELSE Token("Eof", <<"<", "e", "o", "f", ">">>, Span(1, j - 1, j - 1))]

\* every vector of at most MaxTokens tokens of ParseKinds
MaxTokens == 3
ParseKinds == {"Identifier", "Plus", "Minus", "Asterisk", "Bang", "Ampersand", "Mut",
               "Equals", "OpenParenthesis", "CloseParenthesis", "Semicolon"}
ShortVectors == {TokensOf(kinds) : kinds \in UNION {[1..n -> ParseKinds] : n \in 0..MaxTokens}}

\* operand (operator operand)*: at most MaxOperands identifiers with one of
\* LevelKinds between each two; the precedence levels from lowest to highest
MaxOperands == 3
Levels == << {"Equals"}, {"Or"}, {"And"}, {"EqualsEquals", "BangEquals"},
             {"LessThan", "GreaterThan"}, {"Plus", "Minus"}, {"Asterisk", "Slash"} >>
LevelKinds == UNION {Levels[l] : l \in 1..Len(Levels)}
LevelOf(kind) == CHOOSE l \in 1..Len(Levels) : kind \in Levels[l]
ChainKinds(operators) ==
    [j \in 1..(2 * Len(operators) + 1) |->
        IF j % 2 = 1 THEN "Identifier" ELSE operators[j \div 2]]
Chains == {TokensOf(ChainKinds(operators)) :
              operators \in UNION {[1..n -> LevelKinds] : n \in 0..(MaxOperands - 1)}}

\* ( a + b ) * c
ParenthesizedSum ==
    TokensOf(<<"OpenParenthesis", "Identifier", "Plus", "Identifier", "CloseParenthesis",
               "Asterisk", "Identifier">>)

\* the kinds consume is asked for
ConsumeKinds == {"Identifier", "Plus", "Semicolon", "CloseParenthesis", "Eof"}

\* a Parser over a vector, about to parse an expression from the start, or
\* about to consume with its cursor anywhere from 0 to tokens.len()
InitParse ==
    /\ pc \in {"parse_expression", "consume"}
    /\ contents = <<>>
    /\ lex = OldLexInit
    /\ tokens \in {Ok(vector) : vector \in ShortVectors \cup Chains \cup {ParenthesizedSum}}
    /\ parser \in {[ParserInit EXCEPT !.index = index] : index \in 0..(MaxTokens + 1)}
    /\ parser.index <= Len(tokens.value)
    /\ pc = "parse_expression" => parser.index = 0
    /\ pc = "consume" => tokens.value \in ShortVectors
    /\ ast = PendingAst
    /\ state = CodegenStateNew
    /\ state0 = CodegenStateNew
    /\ output = PendingOutput
    /\ files = NoFiles
    /\ printed = <<>>
    /\ ran = <<>>

\* self.parse_expression(): ast holds the Result, the cursor moves to where it stopped
ParseExpression ==
    /\ pc = "parse_expression"
    /\ ast' = parse_expression(tokens.value, parser.index)
    /\ parser' = [parser EXCEPT !.index = ast'.i]
    /\ ran' = Enter("parse_expression")
    /\ pc' = "parsed"
    /\ UNCHANGED <<contents, lex, tokens, state, state0, output, files, printed>>

\* self.consume(kind): printed records the kind asked for
Consume ==
    /\ pc = "consume"
    /\ \E kind \in ConsumeKinds :
          /\ ast' = consume(tokens.value, parser.index, kind)
          /\ printed' = <<kind>>
    /\ parser' = [parser EXCEPT !.index = ast'.i]
    /\ ran' = Enter("consume")
    /\ pc' = "consumed"
    /\ UNCHANGED <<contents, lex, tokens, state, state0, output, files>>

NextParse ==
    \/ ParseExpression
    \/ Consume

SpecParse == InitParse /\ [][NextParse]_vars

\* a step of consume, from the cursor before it to the Result and cursor after it
ConsumeStep == pc = "consume" /\ pc' = "consumed"

\* consume has matched: the current token is returned and the cursor moved by one
ConsumeMatched(kind) ==
    /\ parser.index < Len(tokens.value)
    /\ tokens.value[parser.index + 1].kind = kind
    /\ ast' = POk(parser.index + 1, tokens.value[parser.index + 1])
    /\ parser'.index = parser.index + 1

\* consume has failed with "expected X, but got Y" at the current token's span
ConsumeMismatched(kind) ==
    /\ parser.index < Len(tokens.value)
    /\ tokens.value[parser.index + 1].kind # kind
    /\ ast'.t = "err"
    /\ ast'.error = Error("expected", <<kind, tokens.value[parser.index + 1].kind>>,
                          tokens.value[parser.index + 1].span)
    /\ parser'.index = parser.index

\* consume has failed past the last token: "unexpected end of file" at the
\* span of the token before the cursor
ConsumePastEnd ==
    /\ parser.index = Len(tokens.value)
    /\ ast'.t = "err"
    /\ ast'.error = Error("unexpected end of file", "", tokens.value[parser.index].span)
    /\ parser'.index = parser.index

IsChain ==
    /\ pc = "parsed"
    /\ Len(tokens.value) % 2 = 0
    /\ \A j \in 1..(Len(tokens.value) - 1) :
          IF j % 2 = 1 THEN tokens.value[j].kind = "Identifier"
                       ELSE tokens.value[j].kind \in LevelKinds

OperandCount == Len(tokens.value) \div 2

\* the n-th operand as the AST holds it, and the operator after it
Operand(n) == Identifier(SpannedId(tokens.value[2 * n - 1]))
Operator(n) == tokens.value[2 * n].kind

\* every operator of the chain is of one binary level
OneBinaryLevel ==
    \A n \in 1..(OperandCount - 1) :
        /\ Operator(n) # "Equals"
        /\ LevelOf(Operator(n)) = LevelOf(Operator(1))

\* ((a op b) op c) ... : the first n operands, nested to the left
RECURSIVE LeftNested(_)
LeftNested(n) ==
    IF n = 1 THEN Operand(1)
    ELSE Binary(LeftNested(n - 1), Operator(n - 1), Operand(n))

\* (a op (b op c)) ... : the operands from the n-th on, nested to the right
RECURSIVE RightNested(_)
RightNested(n) ==
    IF n = OperandCount THEN Operand(n)
    ELSE Binary(Operand(n), Operator(n), RightNested(n + 1))

\* C13: binary operators of one precedence level are left-associative: for
\* a op1 b op2 c with op1, op2 of one level, parse_expression returns
\* Binary(Binary(a, op1, b), op2, c).
C13_LeftAssociative ==
    (IsChain /\ OperandCount >= 3 /\ OneBinaryLevel) =>
        ast.t = "ok" /\ ast.node = LeftNested(OperandCount)

\* a - b - c has been parsed as Binary(a, -, Binary(b, -, c))
C13_ParsedRightNested ==
    /\ IsChain
    /\ OperandCount = 3
    /\ Operator(1) = "Minus"
    /\ Operator(2) = "Minus"
    /\ ast.t = "ok"
    /\ ast.node = Binary(Operand(1), "Minus", Binary(Operand(2), "Minus", Operand(3)))

\* a op1 b op2 c with two binary operators of different levels
IsTwoLevelChain ==
    /\ IsChain
    /\ OperandCount = 3
    /\ Operator(1) # "Equals"
    /\ Operator(2) # "Equals"
    /\ LevelOf(Operator(1)) # LevelOf(Operator(2))

\* C14: an operator of a higher level binds tighter than one of a lower
\* level, whichever comes first: `a * b + c` is Binary(Binary(a, *, b), +, c)
\* and `a + b * c` is Binary(a, +, Binary(b, *, c)), for every pair of levels
\* of or < and < equality < relational < additive < multiplicative.
C14_Precedence ==
    IsTwoLevelChain =>
        /\ ast.t = "ok"
        /\ ast.node = IF LevelOf(Operator(1)) > LevelOf(Operator(2))
                      THEN Binary(Binary(Operand(1), Operator(1), Operand(2)),
                                  Operator(2), Operand(3))
                      ELSE Binary(Operand(1), Operator(1),
                                  Binary(Operand(2), Operator(2), Operand(3)))

\* a * b + c has been parsed as Binary(a, *, Binary(b, +, c))
C14_ProductOfSum ==
    /\ IsTwoLevelChain
    /\ Operator(1) = "Asterisk"
    /\ Operator(2) = "Plus"
    /\ ast.t = "ok"
    /\ ast.node = Binary(Operand(1), "Asterisk", Binary(Operand(2), "Plus", Operand(3)))

\* the part of C14 the parser meets: the looser operator first
C14_LooserFirst ==
    (IsTwoLevelChain /\ LevelOf(Operator(1)) < LevelOf(Operator(2))) =>
        /\ ast.t = "ok"
        /\ ast.node = Binary(Operand(1), Operator(1),
                             Binary(Operand(2), Operator(2), Operand(3)))

\* the expressions directly below a node of the AST
SubExpressions(node) ==
    CASE node.k = "Binary" -> {node.lhs, node.rhs}
      [] node.k = "Unary" -> {node.expression}
      [] node.k = "Assignment" -> {node.lhs, node.value}
      [] node.k = "Call" -> {node.expression} \cup Range(node.arguments)
      [] node.k = "Index" -> {node.expression, node.index}
      [] node.k = "Member" -> {node.expression}
      [] node.k = "StructLiteral" ->
            {node.expression} \cup {node.fields[j].value : j \in 1..Len(node.fields)}
      [] node.k = "ArrayLiteral" -> Range(node.expressions)
      [] OTHER -> {}

\* some Binary node of the tree has an Assignment as its left or right operand
RECURSIVE BinaryOverAssignment(_)
BinaryOverAssignment(node) ==
    \/ node.k = "Binary" /\ "Assignment" \in {node.lhs.k, node.rhs.k}
    \/ \E sub \in SubExpressions(node) : BinaryOverAssignment(sub)

\* a = (b = (c ...)): the operands from the n-th on
RECURSIVE RightAssigned(_)
RightAssigned(n) ==
    IF n = OperandCount THEN Operand(n)
    ELSE Assignment(Operand(n), RightAssigned(n + 1))

\* the vector is a = b = ... with at least one `=`
IsAssignmentChain ==
    /\ IsChain
    /\ OperandCount >= 2
    /\ \A n \in 1..(OperandCount - 1) : Operator(n) = "Equals"

\* C15: in every AST parse_expression returns, assignment is right-associative
\* (`a = b = c` is Assignment(a, Assignment(b, c))) and an Assignment is never
\* the left or right operand of a Binary node.
C15_AssignmentAtTopOnly ==
    /\ IsAssignmentChain => ast.t = "ok" /\ ast.node = RightAssigned(1)
    /\ (pc = "parsed" /\ ast.t = "ok") => ~BinaryOverAssignment(ast.node)

\* a + b = c has been parsed as Binary(a, +, Assignment(b, c))
C15_SumOfAssignment ==
    /\ IsChain
    /\ OperandCount = 3
    /\ ast.t = "ok"
    /\ ast.node = Binary(Operand(1), "Plus", Assignment(Operand(2), Operand(3)))

\* the part of C15 the parser meets: assignment is right-associative
C15_RightAssociative ==
    IsAssignmentChain => ast.t = "ok" /\ ast.node = RightAssigned(1)

\* the kinds of the vector before its Eof
KindsOf(toks) == [j \in 1..(Len(toks) - 1) |-> toks[j].kind]

\* the prefix operators by their tokens
PrefixOperators ==
    { <<<<"Plus">>, "Plus">>, <<<<"Minus">>, "Minus">>, <<<<"Bang">>, "Bang">>,
      <<<<"Ampersand">>, "AddressOf">>, <<<<"Ampersand", "Mut">>, "MutableAddressOf">> }

\* parse_expression has returned for the operator's tokens followed by one
\* identifier: the result is Unary(operator, that identifier) and the cursor is
\* on the Eof
PrefixApplied(prefix) ==
    (pc = "parsed" /\ KindsOf(tokens.value) = prefix[1] \o <<"Identifier">>) =>
        /\ ast.t = "ok"
        /\ ast.node = Unary(prefix[2],
                            Identifier(SpannedId(tokens.value[Len(prefix[1]) + 1])))
        /\ parser.index = Len(prefix[1]) + 1

\* C16: for each prefix operator + - ! & and &mut followed by an operand e,
\* parse_unary returns Unary(op, e), e starting at the token right after the
\* operator (after `mut` for `&mut`), and consumes exactly the operator's and
\* the operand's tokens: `&x` is Unary(AddressOf, x), `&mut x` is
\* Unary(MutableAddressOf, x).
C16_PrefixOperators == \A prefix \in PrefixOperators : PrefixApplied(prefix)

\* `&x` has been given to parse_expression and has failed at the Eof
C16_AddressOfFailed ==
    /\ pc = "parsed"
    /\ KindsOf(tokens.value) = <<"Ampersand", "Identifier">>
    /\ ast.t = "err"
    /\ ast.error = Error("expected an expression", "Eof", tokens.value[3].span)

\* the part of C16 the parser meets: every prefix operator but the plain `&`
C16_OtherPrefixOperators ==
    \A prefix \in PrefixOperators : prefix[2] # "AddressOf" => PrefixApplied(prefix)

\* the identifier token at position j, as the AST holds it
IdentifierAt(j) == Identifier(SpannedId(tokens.value[j]))

\* C17: a parenthesized expression `( e )` is a primary expression and parses
\* to the AST of e: `( a )` is the identifier, and `(a + b) * c` has the sum as
\* the left operand of the product.
C17_Parenthesized ==
    /\ (pc = "parsed"
        /\ KindsOf(tokens.value) = <<"OpenParenthesis", "Identifier", "CloseParenthesis">>)
          => ast.t = "ok" /\ ast.node = IdentifierAt(2)
    /\ (pc = "parsed" /\ tokens.value = ParenthesizedSum)
          => /\ ast.t = "ok"
             /\ ast.node = Binary(Binary(IdentifierAt(2), "Plus", IdentifierAt(4)),
                                  "Asterisk", IdentifierAt(7))

\* `( a )` has been given to parse_expression and was rejected at the `(`
C17_ParenthesisRejected ==
    /\ pc = "parsed"
    /\ KindsOf(tokens.value) = <<"OpenParenthesis", "Identifier", "CloseParenthesis">>
    /\ ast.t = "err"
    /\ ast.error = Error("expected an expression", "OpenParenthesis", tokens.value[1].span)
    /\ parser.index = 0


(***************************************************************************)
(* The operator characters of tokenize                                     *)
(***************************************************************************)
\* the one-character token of an operator character
OneCharKind(c) ==
    CASE c = "+" -> "Plus"
      [] c = "-" -> "Minus"
      [] c = "=" -> "Equals"
      [] c = ">" -> "GreaterThan"

\* the two-character token that c and d spell, or "" when they spell none
TwoCharKind(c, d) ==
    CASE c = "+" /\ d = "=" -> "PlusEquals"
      [] c = "-" /\ d = "=" -> "MinusEquals"
      [] c = "-" /\ d = ">" -> "Arrow"
      [] c = "=" /\ d = "=" -> "EqualsEquals"
      [] c = ">" /\ d = "=" -> "GreaterThanEquals"
      [] OTHER -> ""

\* the token kinds of a text of names, digits, blanks and operator
\* characters, when each operator character gives the two-character token
\* it spells with its follower and its one-character token otherwise
RECURSIVE LookaheadKinds(_, _)
LookaheadKinds(text, p) ==
    LET c == CharAt(text, p) IN
    CASE p > Len(text) -> <<"Eof">>
      [] c = " " -> LookaheadKinds(text, p + 1)
      [] c \in IdentStart ->
            <<"Identifier">> \o LookaheadKinds(text, p + RunIn(text, p, IdentPart))
      [] c \in Digit -> <<"Integer">> \o LookaheadKinds(text, p + RunIn(text, p, Digit))
      [] TwoCharKind(c, CharAt(text, p + 1)) # "" ->
            <<TwoCharKind(c, CharAt(text, p + 1))>> \o LookaheadKinds(text, p + 2)
      [] OTHER -> <<OneCharKind(c)>> \o LookaheadKinds(text, p + 1)

\* the kinds of a token sequence, its Eof included
TokenKinds(toks) == [j \in 1..Len(toks) |-> toks[j].kind]

OperandCharacters == {"a", "1", " "}
ArithmeticCharacters == {"+", "-"}
ComparisonCharacters == {"=", ">"}

\* tokenize has returned the tokens of LookaheadKinds for its text
TokenizedByLookahead ==
    /\ tokens.ok
    /\ TokenKinds(tokens.value) = LookaheadKinds(contents, 1)

\* C18: in tokenize, an operator character followed by a character that
\* extends it to a known two-character token gives exactly that token, and
\* otherwise gives exactly its one-character token, the follower being
\* tokenized next; `a + b` gives Identifier, Plus, Identifier.
C18_OperatorLookahead ==
    ("tokenize" \in Range(ran)
        /\ Range(contents) \subseteq
              OperandCharacters \cup ArithmeticCharacters \cup ComparisonCharacters)
    => TokenizedByLookahead

\* tokenize has returned Identifier, Identifier, Eof for `a+a`: no Plus
C18_PlusDropped ==
    /\ "tokenize" \in Range(ran)
    /\ contents = <<"a", "+", "a">>
    /\ tokens.ok
    /\ TokenKinds(tokens.value) = <<"Identifier", "Identifier", "Eof">>

\* the part of C18 that tokenize meets: `=` and `>` anywhere, and `+` and `-`
\* before `=`, `>` (for `-`) or the end of the text
C18_ComparisonLookahead ==
    ("tokenize" \in Range(ran)
        /\ Range(contents) \subseteq
              OperandCharacters \cup ArithmeticCharacters \cup ComparisonCharacters
        /\ \A p \in 1..Len(contents) :
              contents[p] \in ArithmeticCharacters =>
                 \/ p = Len(contents)
                 \/ TwoCharKind(contents[p], CharAt(contents, p + 1)) # "")
    => TokenizedByLookahead


(***************************************************************************)
(* Tokenizer::next_token (src/tokenizer.rs), one call at a time, on every  *)
(* short text of lines, blanks, tabs and continuation markers              *)
(***************************************************************************)
\* the texts have at most MaxIndentLen characters of IndentAlphabet
MaxIndentLen == 6
IndentAlphabet == {"a", " ", "\t", "\n", "\\"}

IndentTexts == UNION {[1..n -> IndentAlphabet] : n \in 0..MaxIndentLen}

\* Tokenizer::new(filename, contents), tokenize about to enter its loop
InitIndent ==
    /\ pc = "next_token"
    /\ contents \in IndentTexts
    /\ lex = OldLexInit
    /\ tokens = Pending
    /\ parser = ParserInit
    /\ ast = PendingAst
    /\ state = CodegenStateNew
    /\ state0 = CodegenStateNew
    /\ output = PendingOutput
    /\ files = NoFiles
    /\ printed = <<>>
    /\ ran = <<>>

\* one iteration of the loop of Tokenizer::tokenize: a call of next_token,
\* then the push of its token, the break after Eof, or the return of its error
NextTokenCall ==
    /\ pc = "next_token"
    /\ lex' = tokenize_iteration(contents, lex)
    /\ ran' = Enter("next_token")
    /\ pc' = IF lex'.outcome = "running" THEN "next_token" ELSE "returned"
    /\ UNCHANGED <<contents, tokens, parser, ast, state, state0, output, files, printed>>

NextIndent == NextTokenCall

SpecIndent == InitIndent /\ [][NextIndent]_vars

\* the position of the character the next call of next_token dispatches on,
\* past the blanks it skips first
DispatchPosition == lex.tz.index + 1 + RunIn(contents, lex.tz.index + 1, {" ", "\t", "\r"})

\* the next call of next_token handles a newline
NewlineCall == pc = "next_token" /\ CharAt(contents, DispatchPosition) = "\n"

\* the positions of the indentation that follows that newline
IndentPositions ==
    (DispatchPosition + 1) ..
        (DispatchPosition + RunIn(contents, DispatchPosition + 1, {" ", "\t", "\r", "\\"}))

\* its width: a space counts 1, a tab 4
IndentWidth ==
    Cardinality({j \in IndentPositions : contents[j] = " "})
        + 4 * Cardinality({j \in IndentPositions : contents[j] = "\t"})

\* it carries a continuation marker
CarriesContinuation == \E j \in IndentPositions : contents[j] = "\\"

TopLevel == lex.tz.indent_stack[Len(lex.tz.indent_stack)]
PoppedStack == SubSeq(lex.tz.indent_stack, 1, Len(lex.tz.indent_stack) - 1)

\* the call has pushed exactly one token, of this kind
Emitted(kind) ==
    /\ lex'.outcome = "running"
    /\ Len(lex'.tokens) = Len(lex.tokens) + 1
    /\ SubSeq(lex'.tokens, 1, Len(lex.tokens)) = lex.tokens
    /\ lex'.tokens[Len(lex'.tokens)].kind = kind

\* the call has failed with this message, and tokenize has returned the error
FailedWith(message) ==
    /\ lex'.outcome = "err"
    /\ lex'.error.message = message
    /\ lex'.tokens = lex.tokens
    /\ tokenize_return(lex').t = "err"


\* what the handling of a newline does, by the width of the line's
\* indentation against the top of the indent stack
LinefeedOutcome ==
    CASE IndentWidth > TopLevel[1] ->
            /\ Emitted("Indent")
            /\ Len(lex'.tz.indent_stack) = Len(lex.tz.indent_stack) + 1
            /\ SubSeq(lex'.tz.indent_stack, 1, Len(lex.tz.indent_stack)) = lex.tz.indent_stack
            /\ lex'.tz.indent_stack[Len(lex'.tz.indent_stack)][1] = IndentWidth
      [] IndentWidth < TopLevel[1] ->
            /\ lex'.tz.indent_stack = PoppedStack
            /\ IF PoppedStack[Len(PoppedStack)][1] > IndentWidth
               THEN FailedWith("inconsistent indentation")
               ELSE Emitted("Dedent")
      [] OTHER ->
            /\ lex'.tz.indent_stack = lex.tz.indent_stack
            /\ Emitted("Linefeed") \/ FailedWith("inconsistent continuation")

\* C19: in Tokenizer::next_token each newline has exactly one outcome, by the
\* measured width w (space 1, tab 4) against the top t of the indent stack:
\* w > t pushes w and emits one Indent; w < t pops exactly one level, then
\* fails with 'inconsistent indentation' if the new top is still greater than
\* w and otherwise emits exactly one Dedent; w = t emits one Linefeed or fails
\* on an illegal continuation. No newline emits more than one token.
C19_OneOutcomePerNewline == [][NewlineCall => LinefeedOutcome]_vars

\* a newline has popped one of three levels and failed, the level under it
\* being wider than the line
C19_FailedAfterOnePop ==
    /\ pc = "returned"
    /\ lex.error.message = "inconsistent indentation"
    /\ Len(lex.tz.indent_stack) = 2


\* the next call of next_token handles a newline whose line is as wide as the
\* top of the indent stack and carries a continuation marker
ContinuationCall == NewlineCall /\ IndentWidth = TopLevel[1] /\ CarriesContinuation

\* C20: in Tokenizer, a line as wide as the top of the indent stack that
\* carries a continuation marker `\` makes tokenize fail with 'inconsistent
\* continuation' and return no tokens at all when that top level was not
\* opened as a continuation, and yields a Linefeed when it was.
C20_Continuation ==
    [][ContinuationCall =>
          IF TopLevel[2]
          THEN Emitted("Linefeed")
          ELSE /\ FailedWith("inconsistent continuation")
               /\ tokenize_return(lex').value = <<>>
               /\ pc' = "returned"]_vars

\* tokenize has failed with 'inconsistent continuation' after it had pushed
\* tokens, and has returned none of them
C20_ContinuationFailed ==
    /\ pc = "returned"
    /\ lex.error.message = "inconsistent continuation"
    /\ lex.tokens # <<>>
    /\ tokenize_return(lex) = [t |-> "err", value |-> <<>>, error |-> lex.error]

\* a line carrying a marker has given a Linefeed inside a level that was
\* opened as a continuation
C20_ContinuedLinefeed ==
    /\ lex.tokens # <<>>
    /\ lex.tokens[Len(lex.tokens)].kind = "Linefeed"
    /\ lex.tz.indent_stack[Len(lex.tz.indent_stack)][2]
    /\ lex.tz.index >= 1
    /\ contents[lex.tz.index] = "\\"


(***************************************************************************)
(* codegen_expression and get_checked_type_of_expression on every          *)
(* expression of bounded depth, in a state that declares an enum E, a      *)
(* variable v and a function f                                             *)
(***************************************************************************)
\* enum E { A }  var v = 1;  fn f() {}
ExpressionDeclarations ==
    <<Enum(Id("E", 5), <<>>, None, <<<<Id("A", 8), None>>>>),
      Variable(Id("v", 5), None, IntegerLit(spanned(1, Span(1, 9, 10)))),
      EmptyFunction("f")>>

ExpressionState == get_symbols(CodegenStateNew, ExpressionDeclarations)

\* the identifiers (u is declared nowhere) and the literals
AtomicExpressions ==
    <<Identifier(Id("E", 1)), Identifier(Id("v", 1)), Identifier(Id("f", 1)),
      Identifier(Id("u", 1)),
      IntegerLit(spanned(1, Span(1, 1, 2))), StringLit(spanned("s", Span(1, 1, 4))),
      BooleanLit(spanned(TRUE, Span(1, 1, 5))), CharacterLit(spanned("c", Span(1, 1, 4)))>>

\* the second operands, arguments and indices
ArgumentExpressions ==
    <<Identifier(Id("v", 3)), IntegerLit(spanned(2, Span(1, 4, 5))),
      BooleanLit(spanned(TRUE, Span(1, 4, 8)))>>

\* the expressions built on e by one more level of the grammar
ExpressionsOver(e) ==
    <<Member(e, Id("m", 3)), Call(e, <<>>), Unary("Minus", e), ArrayLiteral(<<e>>),
      Binary(e, "Add", ArgumentExpressions[2]), Assignment(e, ArgumentExpressions[2]),
      Call(e, <<ArgumentExpressions[1], ArgumentExpressions[2]>>)>>
    \o [a \in 1..Len(ArgumentExpressions) |-> Call(e, <<ArgumentExpressions[a]>>)]
    \o [a \in 1..Len(ArgumentExpressions) |-> Index(e, ArgumentExpressions[a])]
    \o [a \in 1..Len(ArgumentExpressions) |-> ArrayLiteral(<<e, ArgumentExpressions[a]>>)]

\* an expression nests at most MaxDepth levels
MaxDepth == 2

\* how many expressions ExpressionsOver builds on one
OverCount == Len(ExpressionsOver(AtomicExpressions[1]))

\* the expressions of exactly d levels
RECURSIVE ExpressionsOfDepth(_)
ExpressionsOfDepth(d) ==
    IF d = 0 THEN AtomicExpressions
    ELSE LET below == ExpressionsOfDepth(d - 1) IN
         [j \in 1..(Len(below) * OverCount) |->
             ExpressionsOver(below[((j - 1) \div OverCount) + 1])[((j - 1) % OverCount) + 1]]

\* the expressions of at most d levels
RECURSIVE ExpressionsUpTo(_)
ExpressionsUpTo(d) ==
    IF d = 0 THEN ExpressionsOfDepth(0)
    ELSE ExpressionsUpTo(d - 1) \o ExpressionsOfDepth(d)

Expressions == ExpressionsUpTo(MaxDepth)

\* the expression statement about to be lowered, or its base about to be typed
InitExpression ==
    /\ pc \in {"codegen_expression", "get_checked_type_of_expression"}
    /\ contents = <<>>
    /\ lex = OldLexInit
    /\ tokens = Pending
    /\ parser = ParserInit
    /\ \E n \in 1..Len(Expressions) :
          ast = [ok |-> TRUE, value |-> <<ExpressionStatement(Expressions[n])>>,
                 error |-> <<>>]
    /\ state = ExpressionState
    /\ state0 = ExpressionState
    /\ output = PendingOutput
    /\ files = NoFiles
    /\ printed = <<>>
    /\ ran = <<>>

TheExpression == ast.value[1].expression

\* codegen_expression(state, expr)
CodegenExpression ==
    /\ pc = "codegen_expression"
    /\ output' = codegen_expression(state, TheExpression)
    /\ state' = output'.st
    /\ ran' = Enter("codegen_expression")
    /\ pc' = "lowered"
    /\ UNCHANGED <<contents, lex, tokens, parser, ast, state0, files, printed>>

\* get_checked_type_of_expression(state, expression)
GetCheckedType ==
    /\ pc = "get_checked_type_of_expression"
    /\ output' = get_checked_type_of_expression(state, TheExpression)
    /\ state' = output'.st
    /\ ran' = Enter("get_checked_type_of_expression")
    /\ pc' = "typed"
    /\ UNCHANGED <<contents, lex, tokens, parser, ast, state0, files, printed>>

NextExpression ==
    \/ CodegenExpression
    \/ GetCheckedType

SpecExpression == InitExpression /\ [][NextExpression]_vars


\* every identifier inside the expression is in the symbol table
AllDeclared(expression) ==
    \A id \in IdentifiersOfExpression(expression) : id[1] \in DOMAIN state0.symbol_table

\* the expression is an identifier whose symbol is an Enum
ResolvesToEnum(expression) ==
    /\ expression.k = "Identifier"
    /\ expression.v[1] \in DOMAIN state0.symbol_table
    /\ SymbolTypeOf(state0, expression.v[1]) = "Enum"

\* codegen_expression has returned on a Member expression
LoweredMember == pc = "lowered" /\ TheExpression.k = "Member"

\* C21: codegen_expression on Member(base, name), for every base whose
\* identifiers are all declared (a Function identifier, a string literal, a
\* call, an index, another Member), returns Ok with `.` between the lowered
\* base and the name, `::` only when the base resolves to an Enum symbol, and
\* reaches no unreachable!() branch.
C21_MemberTotal ==
    (LoweredMember /\ AllDeclared(TheExpression.expression)) =>
        /\ output.t = "ok"
        /\ output.value =
              codegen_expression(state0, TheExpression.expression).value
              \o <<IF ResolvesToEnum(TheExpression.expression) THEN "::" ELSE ".">>
              \o <<TheExpression.member[1]>>

\* codegen_expression has panicked on `f().m`, all of whose identifiers are
\* declared
C21_MemberOfCallPanicked ==
    /\ LoweredMember
    /\ TheExpression.expression = Call(Identifier(Id("f", 1)), <<>>)
    /\ output.t = "panic"
    /\ output.error.arg = "unreachable"

\* the part of C21 that codegen_expression meets: the bases that are
\* literals other than strings, declared variables or enums, or array literals
\* of such
C21_MemberOfTypedBase ==
    (LoweredMember /\ AllDeclared(TheExpression.expression)
        /\ get_checked_type_of_expression(state0, TheExpression.expression).t = "ok") =>
        /\ output.t = "ok"
        /\ output.value =
              codegen_expression(state0, TheExpression.expression).value
              \o <<IF ResolvesToEnum(TheExpression.expression) THEN "::" ELSE ".">>
              \o <<TheExpression.member[1]>>


\* the lowering of a sub-expression in the state the expression was given
LoweringOf(expression) == codegen_expression(state0, expression).value

\* the lowering of the expression joins the lowerings of its sub-expressions,
\* in source order, with the punctuation of its variant
JoinedStructurally(expression, text) ==
    CASE expression.k = "Call" ->
            text = LoweringOf(expression.expression) \o <<"(">>
                   \o CommaSeparated([n \in 1..Len(expression.arguments) |->
                                         LoweringOf(expression.arguments[n])])
                   \o <<")">>
      [] expression.k = "Index" ->
            text = LoweringOf(expression.expression) \o <<"[">>
                   \o LoweringOf(expression.index) \o <<"]">>
      [] expression.k = "Member" ->
            \E separator \in {".", "::"} :
               text = LoweringOf(expression.expression) \o <<separator>>
                      \o <<expression.member[1]>>
      [] OTHER -> TRUE

\* codegen_expression has returned Ok
LoweredOk == pc = "lowered" /\ output.t = "ok"

\* C22: codegen_expression lowers every Call, Member, Index and literal
\* structurally (Call: callee `(` args separated by `, ` `)`; Index: base `[`
\* index `]`; Member: base separator name), the result is non-empty, and no
\* variant the parser builds (Index, Binary and Assignment included) is lowered
\* to the empty string.
C22_StructuralLowering ==
    LoweredOk =>
        /\ Concat(output.value) # ""
        /\ JoinedStructurally(TheExpression, output.value)

\* codegen_expression has returned Ok("") for `v[2]`
C22_IndexLoweredToNothing ==
    /\ LoweredOk
    /\ TheExpression = Index(Identifier(Id("v", 1)), ArgumentExpressions[2])
    /\ output.value = <<>>

\* the part of C22 that codegen_expression meets: the variants other than
\* Index, Binary and Assignment
C22_StructuralButThree ==
    (LoweredOk /\ TheExpression.k \notin {"Index", "Binary", "Assignment"}) =>
        /\ Concat(output.value) # ""
        /\ JoinedStructurally(TheExpression, output.value)


\* get_checked_type_of_expression has returned Ok on an array literal
TypedArray == pc = "typed" /\ TheExpression.k = "ArrayLiteral" /\ output.t = "ok"

\* the Checked Type of the n-th element of the array literal
ElementType(n) ==
    get_checked_type_of_expression(state0, TheExpression.expressions[n]).value

\* the elements of the array literal all have one Checked Type
SameElementTypes ==
    \A n \in 1..Len(TheExpression.expressions) : ElementType(n) = ElementType(1)

ArrayOf(types) == CheckedPolymorphic(spanned("Array", NoSpan), types)

\* C23: get_checked_type_of_expression on an ArrayLiteral whose elements all
\* have the same Checked Type T returns the single-type wrapper
\* Polymorphic("Array", [T]); it folds into a nested wrapper only when two
\* elements have different Checked Types.
C23_ArrayOfOneType ==
    (TypedArray /\ SameElementTypes) => output.value = ArrayOf(<<ElementType(1)>>)

\* `[1, 2]` has been typed as Array[Array[Array[Integer, Integer], Integer]]
C23_IntegersFolded ==
    /\ TypedArray
    /\ Len(TheExpression.expressions) = 2
    /\ ElementType(1) = [k |-> "Integer"]
    /\ ElementType(2) = [k |-> "Integer"]
    /\ output.value =
          ArrayOf(<<ArrayOf(<<ArrayOf(<<[k |-> "Integer"], [k |-> "Integer"]>>),
                              [k |-> "Integer"]>>)>>)


(***************************************************************************)
(* get_symbols and codegen on units whose declarations are nested in       *)
(* blocks, function bodies and for bodies                                  *)
(***************************************************************************)
VarOf(name) == Variable(Id(name, 5), None, IntegerLit(spanned(1, Span(1, 9, 10))))

\* name.x;
MemberX(name) == ExpressionStatement(Member(Identifier(Id(name, 1)), Id("x", 3)))

\* for k in i { body }
ForK(body) == For(Id("k", 5), Identifier(Id("i", 10)), Block(body))

UnitStatements ==
    <<VarOf("i"),
      Enum(Id("E", 6), <<>>, None, <<<<Id("A", 10), None>>>>),
      Function(Id("f", 4), <<>>, None, Block(<<VarOf("i")>>)),
      Function(Id("g", 4), <<>>, None, Block(<<VarOf("i")>>)),
      Function(Id("h", 4), <<<<Id("p", 6), TypeIdentifier(Id("Point", 9))>>>>, None,
               Block(<<MemberX("p")>>)),
      ForK(<<VarOf("j")>>),
      ForK(<<MemberX("k")>>),
      Block(<<Constant(Id("c", 7), None, IntegerLit(spanned(2, Span(1, 11, 12)))),
              Block(<<Enum(Id("D", 6), <<>>, None, <<<<Id("A", 10), None>>>>)>>)>>),
      Function(Id("q", 4), <<>>, None, Block(<<EmptyFunction("r")>>)),
      MemberX("n"),
      MemberX("i")>>

\* a unit has at most MaxUnit top-level statements
MaxUnit == 2

\* the parsed unit, get_symbols about to run on it
InitSymbols ==
    /\ pc = "get_symbols"
    /\ contents = <<>>
    /\ lex = OldLexInit
    /\ tokens = Pending
    /\ parser = ParserInit
    /\ \E n \in 0..MaxUnit :
          \E choice \in [1..n -> 1..Len(UnitStatements)] :
             ast = [ok |-> TRUE, value |-> [j \in 1..n |-> UnitStatements[choice[j]]],
                    error |-> <<>>]
    /\ state = CodegenStateNew
    /\ state0 = CodegenStateNew
    /\ output = PendingOutput
    /\ files = NoFiles
    /\ printed = <<>>
    /\ ran = <<>>

NextSymbols ==
    \/ GetSymbols
    \/ Codegen

SpecSymbols == InitSymbols /\ [][NextSymbols]_vars

\* the (name, kind) of each Variable, Constant, Enum and Function declaration
\* of the statement, at any depth inside block, function and for bodies
RECURSIVE DeclaredIn(_)
DeclaredIn(statement) ==
    CASE statement.k \in {"Variable", "Constant"} -> {<<statement.spanned_id[1], "Variable">>}
      [] statement.k = "Enum" -> {<<statement.spanned_id[1], "Enum">>}
      [] statement.k = "Function" ->
            {<<statement.spanned_id[1], "Function">>} \cup DeclaredIn(statement.body)
      [] statement.k = "For" -> DeclaredIn(statement.body)
      [] statement.k = "Block" ->
            UNION {DeclaredIn(statement.statements[n]) : n \in 1..Len(statement.statements)}
      [] OTHER -> {}

DeclaredInUnit == UNION {DeclaredIn(ast.value[n]) : n \in 1..Len(ast.value)}

\* get_symbols has run
SymbolsCollected == "get_symbols" \in Range(ran)

\* C24: after get_symbols, every Variable, Constant, Enum and Function
\* declaration at any depth inside block bodies and function bodies, the block
\* of a for loop included, has its name in symbol_table, mapped to an id whose
\* recorded kind matches the declaration.
C24_NestedDeclarations ==
    SymbolsCollected =>
        \A declaration \in DeclaredInUnit :
           /\ declaration[1] \in DOMAIN state0.symbol_table
           /\ SymbolTypeOf(state0, declaration[1]) = declaration[2]

\* get_symbols has run on `for k in i { var j = 1; }` and j is in no table
C24_ForBodySkipped ==
    /\ SymbolsCollected
    /\ ast.value = <<ForK(<<VarOf("j")>>)>>
    /\ "j" \notin DOMAIN state0.symbol_table
    /\ state0.symbols = <<>>

\* the part of C24 that get_symbols meets: the declarations reached through
\* blocks and function bodies only
RECURSIVE DeclaredOutsideFor(_)
DeclaredOutsideFor(statement) ==
    CASE statement.k \in {"Variable", "Constant"} -> {<<statement.spanned_id[1], "Variable">>}
      [] statement.k = "Enum" -> {<<statement.spanned_id[1], "Enum">>}
      [] statement.k = "Function" ->
            {<<statement.spanned_id[1], "Function">>} \cup DeclaredOutsideFor(statement.body)
      [] statement.k = "Block" ->
            UNION {DeclaredOutsideFor(statement.statements[n]) :
                      n \in 1..Len(statement.statements)}
      [] OTHER -> {}

C24_BlockAndFunctionBodies ==
    SymbolsCollected =>
        \A n \in 1..Len(ast.value) :
           \A declaration \in DeclaredOutsideFor(ast.value[n]) :
              /\ declaration[1] \in DOMAIN state0.symbol_table
              /\ SymbolTypeOf(state0, declaration[1]) = declaration[2]


\* the names symbol_table maps to the Symbol Id id
NamesOfId(id) == {name \in DOMAIN state0.symbol_table : state0.symbol_table[name] = id}

\* how many declarations the statement holds where get_symbol looks
RECURSIVE InsertionsOf(_), InsertionsIn(_)
InsertionsOf(statement) ==
    CASE statement.k \in {"Variable", "Constant", "Enum"} -> 1
      [] statement.k = "Function" -> 1 + InsertionsOf(statement.body)
      [] statement.k = "Block" -> InsertionsIn(statement.statements)
      [] OTHER -> 0

InsertionsIn(statements) ==
    IF statements = <<>> THEN 0
    ELSE InsertionsOf(Head(statements)) + InsertionsIn(Tail(statements))

\* C25: after get_symbols every inserted name is unique: symbol_table and
\* symbols have the same number of entries, each Symbol Id i has
\* symbols[i].0 = i and is the value of exactly one name of symbol_table, and
\* no entry is overwritten by a later declaration of the same name.
C25_UniqueNames ==
    SymbolsCollected =>
        /\ Cardinality(DOMAIN state0.symbol_table) = Len(state0.symbols)
        /\ \A id \in 0..(Len(state0.symbols) - 1) :
              /\ state0.symbols[id + 1][1] = id
              /\ Cardinality(NamesOfId(id)) = 1

\* get_symbols has run on two functions that each declare `var i`: four
\* symbols, three names, and no name left for the first i
C25_Overwritten ==
    /\ SymbolsCollected
    /\ Len(ast.value) = 2
    /\ ast.value[1] = UnitStatements[3]
    /\ ast.value[2] = UnitStatements[4]
    /\ Len(state0.symbols) = 4
    /\ DOMAIN state0.symbol_table = {"f", "g", "i"}
    /\ NamesOfId(1) = {}
    /\ state0.symbol_table["i"] = 3

\* the part of C25 that get_symbols meets: the ids are dense, one is pushed
\* per declaration, and no two names share one
C25_DenseIds ==
    SymbolsCollected =>
        /\ Len(state0.symbols) = InsertionsIn(ast.value)
        /\ \A id \in 0..(Len(state0.symbols) - 1) :
              /\ state0.symbols[id + 1][1] = id
              /\ Cardinality(NamesOfId(id)) <= 1


\* the names the statement declares anywhere: its declarations, the
\* parameters of its functions and the variables of its for loops
RECURSIVE NamesBoundIn(_)
NamesBoundIn(statement) ==
    CASE statement.k \in {"Variable", "Constant", "Enum", "Struct", "Union"} ->
            {statement.spanned_id[1]}
      [] statement.k = "Function" ->
            {statement.spanned_id[1]}
            \cup {statement.parameters[n][1][1] : n \in 1..Len(statement.parameters)}
            \cup NamesBoundIn(statement.body)
      [] statement.k = "For" -> {statement.spanned_id[1]} \cup NamesBoundIn(statement.body)
      [] statement.k = "Block" ->
            UNION {NamesBoundIn(statement.statements[n]) : n \in 1..Len(statement.statements)}
      [] OTHER -> {}

NamesBoundInUnit == UNION {NamesBoundIn(ast.value[n]) : n \in 1..Len(ast.value)}

\* codegen has returned
Generated == "codegen" \in Range(ran)

\* C29: codegen raises UndefinedSymbol only for names that are declared
\* nowhere in the unit; a function parameter or a for-loop variable used as the
\* base of a Member expression inside the body is lowered with `.`.
C29_ParametersAndLoopVariables ==
    (Generated /\ output.t = "err" /\ output.error.message = "undefined symbol") =>
        output.error.arg \notin NamesBoundInUnit

\* codegen has failed with "undefined symbol `p`" on fn h(p: Point) { p.x; }
C29_ParameterUndefined ==
    /\ Generated
    /\ ast.value = <<UnitStatements[5]>>
    /\ output.t = "err"
    /\ output.error.message = "undefined symbol"
    /\ output.error.arg = "p"

\* the part of C29 that codegen meets: no name that get_symbols collected is
\* reported undefined
C29_CollectedNamesDefined ==
    (Generated /\ output.t = "err" /\ output.error.message = "undefined symbol") =>
        output.error.arg \notin DOMAIN state0.symbol_table


\* the indent stack is non-empty, its bottom is (0, false), and its widths
\* increase strictly from bottom to top
IndentStackOrdered ==
    /\ lex.tz.indent_stack # <<>>
    /\ lex.tz.indent_stack[1] = <<0, FALSE>>
    /\ \A n \in 1..(Len(lex.tz.indent_stack) - 1) :
          lex.tz.indent_stack[n][1] < lex.tz.indent_stack[n + 1][1]

\* how many of the first n tokens pushed so far have this kind
CountOf(kind, n) == Cardinality({j \in 1..n : lex.tokens[j].kind = kind})

\* no prefix of the tokens holds more Dedent than Indent
DedentsWithinIndents ==
    \A n \in 0..Len(lex.tokens) : CountOf("Dedent", n) <= CountOf("Indent", n)

\* the depth the tokens pushed so far account for
TokenDepth == 1 + CountOf("Indent", Len(lex.tokens)) - CountOf("Dedent", Len(lex.tokens))

\* C26: in every reachable state of Tokenizer the indent stack is non-empty,
\* its bottom is (0, false) and its widths increase strictly; no prefix of the
\* tokens holds more Dedent than Indent, and the stack depth is
\* 1 + #Indent - #Dedent.
C26_DepthMatchesTokens ==
    /\ IndentStackOrdered
    /\ DedentsWithinIndents
    /\ Len(lex.tz.indent_stack) = TokenDepth

\* C26 with the failed call told apart: the stack is ordered and the Dedent
\* tokens stay within the Indent tokens in every reachable state; the stack
\* depth is 1 + #Indent - #Dedent, except after a call that failed with
\* 'inconsistent indentation', which has popped a level without a Dedent.
C26_DepthMatchesTokensUnlessFailed ==
    /\ IndentStackOrdered
    /\ DedentsWithinIndents
    /\ Len(lex.tz.indent_stack) =
          IF lex.outcome = "err" /\ lex.error.message = "inconsistent indentation"
          THEN TokenDepth - 1
          ELSE TokenDepth

\* a call has failed with 'inconsistent indentation' after two Indent tokens:
\* the stack holds two levels, the tokens account for three
C26_PoppedWithoutDedent ==
    /\ lex.outcome = "err"
    /\ lex.error.message = "inconsistent indentation"
    /\ CountOf("Indent", Len(lex.tokens)) = 2
    /\ CountOf("Dedent", Len(lex.tokens)) = 0
    /\ Len(lex.tz.indent_stack) = 2


(***************************************************************************)
(* Parser::parse (src/parsing/parser.rs) on token vectors that end with    *)
(* Eof: every short vector, and every prefix of a unit that runs each loop *)
(* of the parser more than once                                            *)
(***************************************************************************)
\* the tokens of the given kinds followed by Eof, the names taken in turn
UnitTokens(kinds) ==
    [j \in 1..(Len(kinds) + 1) |->
        IF j <= Len(kinds)
        THEN TokenAt(kinds[j], Letters[((j - 1) % Len(Letters)) + 1], j)
        ELSE Token("Eof", <<"<", "e", "o", "f", ">">>, Span(1, j - 1, j - 1))]

\* every vector of at most MaxUnitTokens tokens of UnitKinds
MaxUnitTokens == 3
UnitKinds == {"Identifier", "Fn", "Var", "Struct", "Return", "OpenBrace", "CloseBrace",
              "OpenParenthesis", "CloseParenthesis", "OpenBracket", "Semicolon", "Equals",
              "Ampersand"}
ShortUnits ==
    {UnitTokens(kinds) : kinds \in UNION {[1..n -> UnitKinds] : n \in 0..MaxUnitTokens}}

\* struct a { b: int, c: int }
\* fn a(b: int, c: int) { d; ; e; }
\* a(b, c);   var a = [b, c];   var a: b[int, int] = c;   a { b = c, d = e };
\* for (a in b) { c; }
LongUnitKinds ==
    <<<<"Struct", "Identifier", "OpenBrace", "Identifier", "Colon", "Int", "Comma",
        "Identifier", "Colon", "Int", "CloseBrace">>,
      <<"Fn", "Identifier", "OpenParenthesis", "Identifier", "Colon", "Int", "Comma",
        "Identifier", "Colon", "Int", "CloseParenthesis", "OpenBrace", "Identifier",
        "Semicolon", "Semicolon", "Identifier", "Semicolon", "CloseBrace">>,
      <<"Identifier", "OpenParenthesis", "Identifier", "Comma", "Identifier",
        "CloseParenthesis", "Semicolon">>,
      <<"Var", "Identifier", "Equals", "OpenBracket", "Identifier", "Comma", "Identifier",
        "CloseBracket", "Semicolon">>,
      <<"Var", "Identifier", "Colon", "Identifier", "OpenBracket", "Int", "Comma", "Int",
        "CloseBracket", "Equals", "Identifier", "Semicolon">>,
      <<"Identifier", "OpenBrace", "Identifier", "Equals", "Identifier", "Comma",
        "Identifier", "Equals", "Identifier", "CloseBrace", "Semicolon">>,
      <<"For", "OpenParenthesis", "Identifier", "In", "Identifier", "CloseParenthesis",
        "OpenBrace", "Identifier", "Semicolon", "CloseBrace">>>>

\* every prefix of each of them, cut anywhere
LongUnits ==
    UNION {{UnitTokens(SubSeq(LongUnitKinds[u], 1, n)) : n \in 0..Len(LongUnitKinds[u])} :
              u \in 1..Len(LongUnitKinds)}

\* Parser::new(filename, tokens), parse about to enter its loop
InitUnit ==
    /\ pc = "parse"
    /\ contents = <<>>
    /\ lex = OldLexInit
    /\ tokens \in {Ok(vector) : vector \in ShortUnits \cup LongUnits}
    /\ parser = ParserInit
    /\ ast = PendingAst
    /\ state = CodegenStateNew
    /\ state0 = CodegenStateNew
    /\ output = PendingOutput
    /\ files = NoFiles
    /\ printed = <<>>
    /\ ran = <<>>

NextUnit ==
    \/ ParseStatement
    \/ ParseReturn

SpecUnit == InitUnit /\ [][NextUnit]_vars


\* a parsing function called at cursor i has returned Ok or Err (no panic of
\* previous() at index 0), its cursor within the tokens, and further on than
\* i when it returned Ok
Progressed(result, i) ==
    /\ result.t \in {"ok", "err"}
    /\ result.i <= Len(tokens.value)
    /\ result.t = "ok" => result.i > i

\* what one iteration of each inner loop is made of (a statement in
\* parse_block; consume and a type in the field, parameter and generic
\* argument lists; an expression in the call arguments, the array elements and
\* the struct literal members), called at any cursor before the end
InnerLoopsProgress ==
    \A i \in 0..(Len(tokens.value) - 1) :
       /\ Progressed(parse_statement(tokens.value, i), i)
       /\ Progressed(parse_expression(tokens.value, i), i)
       /\ Progressed(parse_type(tokens.value, i), i)
       /\ \A kind \in {"Identifier", "Colon", "Comma", "Equals"} :
             Progressed(consume(tokens.value, i, kind), i)

\* an iteration of the loop of Parser::parse
ParseIteration == pc = "parse" /\ ~is_at_end(tokens.value, parser.index)

\* C27: Parser::parse terminates on every finite token sequence that ends
\* with Eof: every iteration of the top-level loop and of each inner loop
\* either strictly increases the cursor index or returns an error, the index
\* never exceeds tokens.len(), and previous() is never evaluated with index 0.
C27_ParseTerminates ==
    [][ParseIteration =>
          /\ InnerLoopsProgress
          /\ ~parser'.panicked
          /\ parser'.index > parser.index
          /\ parser'.index <= Len(tokens.value)]_vars

\* parse has returned on fn a(b: int, c: int) { d; ; e; } with its cursor at
\* tokens.len(), after one iteration for the function and one for Eof
C27_ParsedFunction ==
    /\ pc # "parse"
    /\ "parse" \in Range(ran)
    /\ tokens.value = UnitTokens(LongUnitKinds[2])
    /\ parser.index = Len(tokens.value)
    /\ Len(parser.statements) = 2
    /\ parser.errors = <<>>


\* Parser::parse has returned Ok(statements)
ParsedOk == pc # "parse" /\ "parse" \in Range(ran) /\ ast.ok

\* C28: when Parser::parse returns Ok(statements), the list contains no
\* Garbage statement: the Eof token contributes no statement.
C28_NoGarbage ==
    ParsedOk => \A n \in 1..Len(ast.value) : ast.value[n] # Garbage

\* parse has returned Ok([Expression(a), Garbage]) for the tokens of `a;`
C28_GarbageForEof ==
    /\ ParsedOk
    /\ tokens.value = UnitTokens(<<"Identifier", "Semicolon">>)
    /\ Len(ast.value) = 2
    /\ ast.value[1].k = "Expression"
    /\ ast.value[2] = Garbage

\* the statement a function or a for loop ends with, through nested bodies
RECURSIVE InnermostBody(_)
InnermostBody(statement) ==
    IF statement.k \in {"Function", "For"} THEN InnermostBody(statement.body) ELSE statement

\* what Parser::parse does return: the Eof token is parsed as a Garbage
\* statement, which is the last of the list or the body its last function or
\* for loop ends with, and no other top-level statement is Garbage
C28_GarbageLastOnly ==
    ParsedOk =>
        /\ ast.value # <<>>
        /\ InnermostBody(ast.value[Len(ast.value)]) = Garbage
        /\ \A n \in 1..(Len(ast.value) - 1) : ast.value[n] # Garbage


(***************************************************************************)
(* The spans of tokenize and the underline of Error's Display              *)
(***************************************************************************)
\* " ".repeat(start - 1) and "~".repeat(end - start) in usize: neither
\* subtraction goes below zero
Underlinable(span) == span.start - 1 >= 0 /\ span.end - span.start >= 0

\* the position in the text of column 1 of a line, less one
LineOffset(text, line) ==
    IF line = 1 THEN 0
    ELSE LET newlines == {p \in 1..Len(text) : text[p] = "\n"} IN
         CHOOSE p \in newlines : Cardinality({q \in newlines : q <= p}) = line - 1

\* the span starts at the column of the first character of the token's text
StartsAtLexeme(text, token) ==
    token.kind \in {"Eof", "String", "Character"}
    \/ CharAt(text, LineOffset(text, token.span.line) + token.span.start) = token.value[1]

\* C30: every span that tokenize attaches to a token, the Eof token included,
\* or to an 'unexpected character' error has start column >= 1 and end column
\* >= start column, and starts at the 1-based column of the first character of
\* the lexeme; hence `start - 1` and `end - start` in Error's Display never
\* underflow.
C30_SpansUnderlinable ==
    "tokenize" \in Range(ran) =>
        IF tokens.ok
        THEN \A n \in 1..Len(tokens.value) :
                /\ Underlinable(tokens.value[n].span)
                /\ StartsAtLexeme(contents, tokens.value[n])
        ELSE Underlinable(tokens.error.span)

\* tokenize has returned 'unexpected character' for `@` with the span 0..0
C30_ErrorAtColumnZero ==
    /\ "tokenize" \in Range(ran)
    /\ contents = <<"@">>
    /\ ~tokens.ok
    /\ tokens.error.message = "unexpected character"
    /\ tokens.error.span = Span(1, 0, 0)

\* the part of C30 that tokenize meets: the tokens other than Eof
C30_LexemeSpans ==
    ("tokenize" \in Range(ran) /\ tokens.ok) =>
        \A n \in 1..(Len(tokens.value) - 1) :
           /\ Underlinable(tokens.value[n].span)
           /\ StartsAtLexeme(contents, tokens.value[n])

====
